---- MODULE Spec2Model ----
(***************************************************************************)
(* Model of vrnvu/cupid: the Persistence Engine (HotelRepository), the     *)
(* Sync Orchestrator (cmd/data-sync) and the relational schema they write  *)
(* to.  A transaction is a working copy `tx` of the committed store `db`;  *)
(* readers only ever see `db`.                                             *)
(***************************************************************************)
EXTENDS Integers, Sequences, FiniteSets, TLC

\* ------------------------------------------------------------------ bounds
\* Number of repository calls begun in one behaviour (each call gets its own
\* NOW() value, so the clock is capped with it).
MaxCalls == 3

\* ------------------------------------------------------------------ helpers
Range(f) == {f[i] : i \in DOMAIN f}

\* TRUE iff two positions of the sequence hold the same element.
HasDup(seq) ==
    \E i, j \in DOMAIN seq : i # j /\ seq[i] = seq[j]

NoRow == [absent |-> TRUE]

\* ------------------------------------------------------------------ inputs
HotelIds == {1, 2, 3}

Photo(u, o)      == [URL |-> u, ClassOrder |-> o]
Facility(i, n)   == [FacilityID |-> i, Name |-> n]
Policy(i, n)     == [ID |-> i, Name |-> n]
BedType(i, t)    == [ID |-> i, BedType |-> t]
RoomAmenity(i, n) == [AmenitiesID |-> i, Name |-> n]
Room(i, n, beds, ams, phs) ==
    [ID |-> i, RoomName |-> n, BedTypes |-> beds, RoomAmenities |-> ams, Photos |-> phs]

Room10  == Room(10, "single", <<BedType(1, "twin")>>, <<RoomAmenity(1, "tv")>>,
                <<Photo("r10.jpg", 1)>>)
Room20  == Room(20, "double", <<BedType(1, "king"), BedType(2, "sofa")>>,
                <<RoomAmenity(2, "ac")>>, <<Photo("r20.jpg", 1)>>)
Room10b == Room(10, "suite", <<BedType(3, "queen")>>, <<>>, <<>>)
Room30  == Room(30, "bare", <<>>, <<>>, <<>>)

InstructionsOf(c) ==
    CASE c = "E" -> <<>>
      [] c = "A" -> <<"bring id">>
      [] c = "B" -> <<"card", "bring id">>

PhotosOf(c) ==
    CASE c = "E" -> <<>>
      [] c = "A" -> <<Photo("u1", 1)>>
      [] c = "B" -> <<Photo("u2", 1), Photo("u3", 2)>>
      [] c = "D" -> <<Photo("u1", 1), Photo("u1", 2)>>

FacilitiesOf(c) ==
    CASE c = "E" -> <<>>
      [] c = "A" -> <<Facility(1, "wifi")>>
      [] c = "B" -> <<Facility(2, "pool"), Facility(3, "spa")>>
      [] c = "D" -> <<Facility(1, "wifi"), Facility(1, "wi-fi")>>

PoliciesOf(c) ==
    CASE c = "E" -> <<>>
      [] c = "A" -> <<Policy(1, "flexible")>>
      [] c = "B" -> <<Policy(2, "strict")>>
      [] c = "D" -> <<Policy(1, "flexible"), Policy(1, "strict")>>

RoomsOf(c) ==
    CASE c = "E" -> <<>>
      [] c = "A" -> <<Room10>>
      [] c = "B" -> <<Room20, Room10b>>
      [] c = "C" -> <<Room30>>
      [] c = "D" -> <<Room10, Room10b>>

\* A float64 rating is held in thousandths: Points(8) is 8.0, 8300 is 8.3.
Points(n) == n * 1000

\* client.Property. The scalar fields that storeHotel overwrites on conflict
\* follow `rating`, the ones it does not follow `stars`: two Properties that
\* differ in rating and stars differ in every scalar field.
Property(h, rating, stars, city, prof) ==
    [HotelID |-> h, Rating |-> Points(rating), Stars |-> stars,
     MainImageTh |-> <<"image", rating>>, HotelName |-> <<"name", rating>>,
     Phone |-> <<"phone", rating>>, Fax |-> <<"fax", rating>>,
     Email |-> <<"email", rating>>, ReviewCount |-> 10 * rating,
     Description |-> <<"description", rating>>,
     MarkdownDescription |-> <<"markdown", rating>>,
     ImportantInfo |-> <<"info", rating>>,
     CupidID |-> 1000 + stars, HotelType |-> <<"type", stars>>, HotelTypeID |-> stars,
     Chain |-> <<"chain", stars>>, ChainID |-> stars,
     Latitude |-> stars, Longitude |-> 0 - stars,
     AirportCode |-> <<"airport", stars>>, Parking |-> <<"parking", stars>>,
     GroupRoomMin |-> stars, ChildAllowed |-> stars % 2 = 0, PetsAllowed |-> stars % 2 = 1,
     Address |-> [City |-> city],
     Checkin |-> [CheckinStart |-> rating, Instructions |-> InstructionsOf(prof[1])],
     Photos |-> PhotosOf(prof[2]),
     Facilities |-> FacilitiesOf(prof[3]),
     Policies |-> PoliciesOf(prof[4]),
     Rooms |-> RoomsOf(prof[5])]

\* Collection profiles: <<instructions, photos, facilities, policies, rooms>>.
Profiles ==
    { <<"A", "A", "A", "A", "A">>,
      <<"B", "B", "B", "B", "B">>,
      <<"E", "E", "E", "E", "E">>,
      <<"A", "D", "A", "A", "B">>,
      <<"B", "A", "B", "E", "D">>,
      <<"E", "B", "E", "A", "C">> }

PropertyInputs ==
    { Property(1, r, r + 1, r, prof) : r \in {3, 4}, prof \in Profiles }
    \cup { Property(2, 5, 5, 5, <<"A", "A", "A", "A", "A">>) }

\* ------------------------------------------------------------------ state
VARIABLES
    db,        \* committed store: what every reader sees
    tx,        \* working copy of the open transaction
    roomSeq,   \* hotel_rooms.id SERIAL sequence (not transactional)
    clock,     \* NOW(); one tick per transaction begun
    pc,        \* position of the StoreProperty call in flight
    arg,       \* the *client.Property of the current / last call
    result,    \* return value of the last finished call: "none" | "ok" | "err"
    pre,       \* history: committed store when the current / last call began
    roomIDMap, \* storeRoomsBatch's local map cupid_room_id -> id of the last call
    op,        \* the repository operation of the current / last call
    repeated,  \* history: the current / last call repeats the call before it, which returned ok
    et,        \* data-sync: the endpoint type of the run
    idx,       \* data-sync: position of the batch loop in allHotelIDs
    successCount, \* data-sync: the batch loop's counter
    unit,      \* data-sync: state of the sync of the current hotel
    body,      \* data-sync: the fetched body / the parsed entity
    lang,      \* data-sync: position of the translations loop in languages
    allTranslations, \* data-sync: translations gathered for the current hotel
    fetched,   \* history: what the fetches of the current hotel returned
    stored,    \* history: outcome of the repository call of the current hotel
    fetches,   \* history: one entry for every fetch made for the current hotel
    calls,     \* history: repository calls made for the current hotel
    before,    \* history: committed store when the sync of the current hotel began
    sinceFetch, \* history: ms the run has slept since its last fetch returned; -1 before the first fetch
    log,       \* history: one entry for every hotel the batch is done with
    cache,     \* server: the Server's cache field
    rdb,       \* the Redis keyspace: key -> value and expiry time
    time,      \* the time of the cache backend
    resp,      \* server: the response of the last read
    trace,     \* history: the cache and repository operations of the last read
    got,       \* the result of the last GetReviews of a cache client
    sets,      \* history: per hotel, the last SetReviews that succeeded and is not deleted
    req,       \* history: the route and the path values of the last request served
    writers,   \* concurrent StoreProperty calls: per writer, its position and transaction
    lastCommitted \* history: per hotel, the Property of the last such call that committed

repoVars == <<db, tx, roomSeq, clock, pc, arg, result, pre, roomIDMap, op, repeated>>
histVars == <<fetches, calls, before, sinceFetch>>
syncVars == <<et, idx, successCount, unit, body, lang, allTranslations, fetched, stored, log,
              histVars>>
serverVars == <<cache, rdb, time, resp, trace, got, sets, req>>
writerVars == <<writers, lastCommitted>>
vars == <<repoVars, syncVars, serverVars, writerVars>>

EmptyStore ==
    [hotels                     |-> {},
     hotel_addresses            |-> [h \in HotelIds |-> NoRow],
     hotel_checkins             |-> [h \in HotelIds |-> NoRow],
     hotel_checkin_instructions |-> {},
     hotel_photos               |-> {},
     hotel_facilities           |-> {},
     hotel_policies             |-> {},
     hotel_rooms                |-> {},
     room_bed_types             |-> {},
     room_amenities             |-> {},
     room_photos                |-> {},
     reviews                    |-> <<>>,
     translations               |-> {}]

Res(e, s) == [err |-> e, s |-> s]

\* ------------------------------------------------------------------ storeHotel
\* rating DECIMAL(3, 2): the value is rounded to hundredths (half away from
\* zero; ratings are not negative here) and has to stay below 10.00, else the
\* statement fails with a numeric field overflow.
Decimal32(x) ==
    LET rounded == ((x + 5) \div 10) * 10
    IN [err |-> rounded >= Points(10), value |-> rounded]

\* The columns of hotels that ON CONFLICT ... DO UPDATE SET assigns from the
\* Property (updated_at = NOW() is assigned too).
UpdatedColumns(p) ==
    [main_image_th |-> p.MainImageTh, hotel_name |-> p.HotelName, phone |-> p.Phone,
     fax |-> p.Fax, email |-> p.Email, rating |-> Decimal32(p.Rating).value,
     review_count |-> p.ReviewCount, description |-> p.Description,
     markdown_description |-> p.MarkdownDescription, important_info |-> p.ImportantInfo]

\* The columns of hotels that only the INSERT assigns (created_at defaults to
\* NOW()).
InsertedColumns(p) ==
    [hotel_id |-> p.HotelID, cupid_id |-> p.CupidID, hotel_type |-> p.HotelType,
     hotel_type_id |-> p.HotelTypeID, chain |-> p.Chain, chain_id |-> p.ChainID,
     latitude |-> p.Latitude, longitude |-> p.Longitude, stars |-> p.Stars,
     airport_code |-> p.AirportCode, parking |-> p.Parking,
     group_room_min |-> p.GroupRoomMin, child_allowed |-> p.ChildAllowed,
     pets_allowed |-> p.PetsAllowed]

\* The row of table hotels with the given columns and timestamps.
HotelRow(ins, upd, created, updated) ==
    [c \in DOMAIN ins \cup DOMAIN upd \cup {"created_at", "updated_at"} |->
        IF c \in DOMAIN ins THEN ins[c]
        ELSE IF c \in DOMAIN upd THEN upd[c]
        ELSE IF c = "created_at" THEN created ELSE updated]

\* Mutant: stars is in the SET list as well.
storeHotel_UpdatesStars(s, p, now) ==
    IF Decimal32(p.Rating).err
    THEN Res(TRUE, s)
    ELSE IF \E r \in s.hotels : r.hotel_id = p.HotelID
    THEN Res(FALSE, [s EXCEPT !.hotels =
             { IF r.hotel_id = p.HotelID
               THEN HotelRow([c \in DOMAIN InsertedColumns(p) |->
                                 IF c = "stars" THEN p.Stars ELSE r[c]],
                             UpdatedColumns(p), r.created_at, now)
               ELSE r : r \in @ }])
    ELSE Res(FALSE, [s EXCEPT !.hotels =
             @ \cup { HotelRow(InsertedColumns(p), UpdatedColumns(p), now, now) }])

\* Mutant: on conflict the whole row is replaced by a fresh one.
storeHotel_ReplaceRow(s, p, now) ==
    Res(FALSE, [s EXCEPT !.hotels =
        {r \in @ : r.hotel_id # p.HotelID}
        \cup { HotelRow(InsertedColumns(p), UpdatedColumns(p), now, now) }])

\* INSERT INTO hotels ... ON CONFLICT (hotel_id) DO UPDATE SET updated_at = NOW(),
\* main_image_th, hotel_name, phone, fax, email, rating, review_count,
\* description, markdown_description, important_info = EXCLUDED...: the other
\* columns and created_at are not in the SET list.
\* Returns the hotel_id of the row (RETURNING hotel_id).
storeHotel(s, p, now) ==
    IF Decimal32(p.Rating).err
    THEN Res(TRUE, s)
    ELSE IF \E r \in s.hotels : r.hotel_id = p.HotelID
    THEN Res(FALSE, [s EXCEPT !.hotels =
             { IF r.hotel_id = p.HotelID
               THEN HotelRow([c \in DOMAIN InsertedColumns(p) |-> r[c]],
                             UpdatedColumns(p), r.created_at, now)
               ELSE r : r \in @ }])
    ELSE Res(FALSE, [s EXCEPT !.hotels =
             @ \cup { HotelRow(InsertedColumns(p), UpdatedColumns(p), now, now) }])

storeAddress(s, hotelID, address) ==
    Res(FALSE, [s EXCEPT !.hotel_addresses[hotelID] = [city |-> address.City]])

\* ------------------------------------------------------------------ storeCheckin
\* hotel_checkins.id is a SERIAL; rows are never deleted, so the generated id
\* is modelled as an injective function of the owning hotel.
NewCheckinID(hotelID) == 100 + hotelID

storeCheckinInstructionsBatch(s, checkinID, instructions) ==
    IF Len(instructions) = 0
    THEN Res(FALSE, s)
    ELSE Res(FALSE,
             [s EXCEPT !.hotel_checkin_instructions =
                 @ \cup { [hotel_checkin_id |-> checkinID,
                           instruction      |-> instructions[i],
                           sort_order       |-> i - 1] : i \in DOMAIN instructions }])

\* Mutant: the prior instructions are deleted only when new ones are supplied.
storeCheckin_KeepOnEmpty(s, hotelID, checkin) ==
    LET old       == s.hotel_checkins[hotelID]
        checkinID == IF old = NoRow THEN NewCheckinID(hotelID) ELSE old.id
        s1 == [s EXCEPT !.hotel_checkins[hotelID] =
                  [id |-> checkinID, checkin_start |-> checkin.CheckinStart]]
        s2 == [s1 EXCEPT !.hotel_checkin_instructions =
                  {r \in @ : r.hotel_checkin_id # checkinID}]
    IN IF Len(checkin.Instructions) > 0
       THEN storeCheckinInstructionsBatch(s2, checkinID, checkin.Instructions)
       ELSE Res(FALSE, s1)

storeCheckin(s, hotelID, checkin) ==
    LET old       == s.hotel_checkins[hotelID]
        checkinID == IF old = NoRow THEN NewCheckinID(hotelID) ELSE old.id
        s1 == [s EXCEPT !.hotel_checkins[hotelID] =
                  [id |-> checkinID, checkin_start |-> checkin.CheckinStart]]
        s2 == [s1 EXCEPT !.hotel_checkin_instructions =
                  {r \in @ : r.hotel_checkin_id # checkinID}]
    IN IF Len(checkin.Instructions) > 0
       THEN storeCheckinInstructionsBatch(s2, checkinID, checkin.Instructions)
       ELSE Res(FALSE, s2)

\* ------------------------------------------------------------------ 1:N batches
PhotoRow(hotelID, ph)    == [hotel_id |-> hotelID, url |-> ph.URL, class_order |-> ph.ClassOrder]
FacilityRow(hotelID, f)  == [hotel_id |-> hotelID, facility_id |-> f.FacilityID, name |-> f.Name]
PolicyRow(hotelID, po)   == [hotel_id |-> hotelID, cupid_policy_id |-> po.ID, name |-> po.Name]

PhotoKey(r)    == <<r.hotel_id, r.url>>
FacilityKey(r) == <<r.hotel_id, r.facility_id>>
PolicyKey(r)   == <<r.hotel_id, r.cupid_policy_id>>

\* Mutant: the tables have no UNIQUE constraint.
UniqueViolation_Never(tableKeys, newKeys) == FALSE

\* A multi-row INSERT violates UNIQUE(key) when two new rows, or a new row and
\* a row already in the table, agree on the key.
UniqueViolation(tableKeys, newKeys) ==
    \/ HasDup(newKeys)
    \/ \E i \in DOMAIN newKeys : newKeys[i] \in tableKeys

\* Mutant: the batch is inserted without deleting the hotel's prior rows.
storePhotosBatch_NoDelete(s, hotelID, photos) ==
    IF Len(photos) = 0
    THEN Res(FALSE, s)
    ELSE LET rows == [i \in DOMAIN photos |-> PhotoRow(hotelID, photos[i])]
         IN IF UniqueViolation({PhotoKey(r) : r \in s.hotel_photos}, [i \in DOMAIN rows |-> PhotoKey(rows[i])])
            THEN Res(TRUE, s)
            ELSE Res(FALSE, [s EXCEPT !.hotel_photos = @ \cup Range(rows)])

\* Mutant: no early return, an empty list deletes the hotel's prior rows.
storePhotosBatch_ClearOnEmpty(s, hotelID, photos) ==
    LET kept == {r \in s.hotel_photos : r.hotel_id # hotelID}
        rows == [i \in DOMAIN photos |-> PhotoRow(hotelID, photos[i])]
    IN IF UniqueViolation({PhotoKey(r) : r \in kept}, [i \in DOMAIN rows |-> PhotoKey(rows[i])])
       THEN Res(TRUE, s)
       ELSE Res(FALSE, [s EXCEPT !.hotel_photos = kept \cup Range(rows)])

storePhotosBatch(s, hotelID, photos) ==
    IF Len(photos) = 0
    THEN Res(FALSE, s)
    ELSE LET kept == {r \in s.hotel_photos : r.hotel_id # hotelID}
             rows == [i \in DOMAIN photos |-> PhotoRow(hotelID, photos[i])]
         IN IF UniqueViolation({PhotoKey(r) : r \in kept}, [i \in DOMAIN rows |-> PhotoKey(rows[i])])
            THEN Res(TRUE, s)
            ELSE Res(FALSE, [s EXCEPT !.hotel_photos = kept \cup Range(rows)])

storeFacilitiesBatch(s, hotelID, facilities) ==
    IF Len(facilities) = 0
    THEN Res(FALSE, s)
    ELSE LET kept == {r \in s.hotel_facilities : r.hotel_id # hotelID}
             rows == [i \in DOMAIN facilities |-> FacilityRow(hotelID, facilities[i])]
         IN IF UniqueViolation({FacilityKey(r) : r \in kept}, [i \in DOMAIN rows |-> FacilityKey(rows[i])])
            THEN Res(TRUE, s)
            ELSE Res(FALSE, [s EXCEPT !.hotel_facilities = kept \cup Range(rows)])

storePoliciesBatch(s, hotelID, policies) ==
    IF Len(policies) = 0
    THEN Res(FALSE, s)
    ELSE LET kept == {r \in s.hotel_policies : r.hotel_id # hotelID}
             rows == [i \in DOMAIN policies |-> PolicyRow(hotelID, policies[i])]
         IN IF UniqueViolation({PolicyKey(r) : r \in kept}, [i \in DOMAIN rows |-> PolicyKey(rows[i])])
            THEN Res(TRUE, s)
            ELSE Res(FALSE, [s EXCEPT !.hotel_policies = kept \cup Range(rows)])

\* ------------------------------------------------------------------ rooms
RoomRow(id, hotelID, room) ==
    [id |-> id, hotel_id |-> hotelID, cupid_room_id |-> room.ID, room_name |-> room.RoomName]
BedTypeRow(roomID, b)     == [room_id |-> roomID, cupid_bed_id |-> b.ID, bed_type |-> b.BedType]
RoomAmenityRow(roomID, a) == [room_id |-> roomID, amenities_id |-> a.AmenitiesID, name |-> a.Name]
RoomPhotoRow(roomID, ph)  == [room_id |-> roomID, url |-> ph.URL, class_order |-> ph.ClassOrder]

RoomKey(r)        == <<r.hotel_id, r.cupid_room_id>>
BedTypeKey(r)     == <<r.room_id, r.cupid_bed_id>>
RoomAmenityKey(r) == <<r.room_id, r.amenities_id>>
RoomPhotoKey(r)   == <<r.room_id, r.url>>

\* Mutant: child rows are accepted whatever room id they carry.
RoomFKViolation_Never(s, roomID) == FALSE

\* room_id REFERENCES hotel_rooms(id): a child row needs an existing room row.
RoomFKViolation(s, roomID) == roomID \notin {r.id : r \in s.hotel_rooms}

storeBedTypesBatch(s, roomID, bedTypes) ==
    IF Len(bedTypes) = 0
    THEN Res(FALSE, s)
    ELSE LET rows == [i \in DOMAIN bedTypes |-> BedTypeRow(roomID, bedTypes[i])]
         IN IF RoomFKViolation(s, roomID) \/ UniqueViolation({BedTypeKey(r) : r \in s.room_bed_types}, [i \in DOMAIN rows |-> BedTypeKey(rows[i])])
            THEN Res(TRUE, s)
            ELSE Res(FALSE, [s EXCEPT !.room_bed_types = @ \cup Range(rows)])

storeRoomAmenitiesBatch(s, roomID, amenities) ==
    IF Len(amenities) = 0
    THEN Res(FALSE, s)
    ELSE LET rows == [i \in DOMAIN amenities |-> RoomAmenityRow(roomID, amenities[i])]
         IN IF RoomFKViolation(s, roomID) \/ UniqueViolation({RoomAmenityKey(r) : r \in s.room_amenities}, [i \in DOMAIN rows |-> RoomAmenityKey(rows[i])])
            THEN Res(TRUE, s)
            ELSE Res(FALSE, [s EXCEPT !.room_amenities = @ \cup Range(rows)])

storeRoomPhotosBatch(s, roomID, photos) ==
    IF Len(photos) = 0
    THEN Res(FALSE, s)
    ELSE LET rows == [i \in DOMAIN photos |-> RoomPhotoRow(roomID, photos[i])]
         IN IF RoomFKViolation(s, roomID) \/ UniqueViolation({RoomPhotoKey(r) : r \in s.room_photos}, [i \in DOMAIN rows |-> RoomPhotoKey(rows[i])])
            THEN Res(TRUE, s)
            ELSE Res(FALSE, [s EXCEPT !.room_photos = @ \cup Range(rows)])

\* Mutant: DELETE FROM hotel_rooms without the WHERE hotel_id = $1.
DeleteRooms_EveryHotel(s, hotelID) ==
    [s EXCEPT !.hotel_rooms = {}, !.room_bed_types = {}, !.room_amenities = {},
              !.room_photos = {}]

\* Mutant: the rows of the three child tables stay when their room is deleted.
DeleteRooms_NoCascade(s, hotelID) ==
    [s EXCEPT !.hotel_rooms = {r \in @ : r.hotel_id # hotelID}]

\* DELETE FROM hotel_rooms WHERE hotel_id = $1, with ON DELETE CASCADE on the
\* three child tables.
DeleteRooms(s, hotelID) ==
    LET gone == {r.id : r \in {x \in s.hotel_rooms : x.hotel_id = hotelID}}
    IN [s EXCEPT !.hotel_rooms    = {r \in @ : r.hotel_id # hotelID},
                 !.room_bed_types = {r \in @ : r.room_id \notin gone},
                 !.room_amenities = {r \in @ : r.room_id \notin gone},
                 !.room_photos    = {r \in @ : r.room_id \notin gone}]

\* Mutant: every external id is mapped to the id of the last returned row.
RoomIDMap_LastRow(seq, rooms, returned) ==
    [c \in {rooms[i].ID : i \in returned} |->
        seq + (CHOOSE i \in returned : \A j \in returned : j <= i)]

\* roomIDMap[cupidRoomID] = roomID for every row the INSERT ... RETURNING
\* yields (rows are scanned in order, a later row overwrites an earlier one).
RoomIDMap(seq, rooms, returned) ==
    [c \in {rooms[i].ID : i \in returned} |->
        LET last == CHOOSE i \in returned :
                       /\ rooms[i].ID = c
                       /\ \A j \in returned : rooms[j].ID = c => j <= i
        IN seq + last]

\* Go map lookup: the zero value when the key is missing.
Lookup(idMap, cupidRoomID) ==
    IF cupidRoomID \in DOMAIN idMap THEN idMap[cupidRoomID] ELSE 0

\* for _, room := range rooms { roomID := roomIDMap[room.ID]; ... }
RECURSIVE storeRoomChildren(_, _, _, _)
storeRoomChildren(s, rooms, i, idMap) ==
    IF i > Len(rooms)
    THEN Res(FALSE, s)
    ELSE LET roomID == Lookup(idMap, rooms[i].ID)
             r1 == storeBedTypesBatch(s, roomID, rooms[i].BedTypes)
             r2 == storeRoomAmenitiesBatch(r1.s, roomID, rooms[i].RoomAmenities)
             r3 == storeRoomPhotosBatch(r2.s, roomID, rooms[i].Photos)
         IN IF r1.err THEN Res(TRUE, s)
            ELSE IF r2.err THEN Res(TRUE, s)
            ELSE IF r3.err THEN Res(TRUE, s)
            ELSE storeRoomChildren(r3.s, rooms, i + 1, idMap)

\* Mutant: the new rows are inserted without deleting the hotel's prior rooms.
storeRoomsBatch_NoDelete(s, seq, hotelID, rooms, returned) ==
    IF Len(rooms) = 0
    THEN [err |-> FALSE, s |-> s, seq |-> seq, roomIDMap |-> <<>>]
    ELSE LET rows == [i \in DOMAIN rooms |-> RoomRow(seq + i, hotelID, rooms[i])]
             seq2 == seq + Len(rooms)
             m    == RoomIDMap(seq, rooms, returned)
         IN IF UniqueViolation({RoomKey(r) : r \in s.hotel_rooms}, [i \in DOMAIN rows |-> RoomKey(rows[i])])
            THEN [err |-> TRUE, s |-> s, seq |-> seq2, roomIDMap |-> <<>>]
            ELSE LET s2 == [s EXCEPT !.hotel_rooms = @ \cup Range(rows)]
                     rc == storeRoomChildren(s2, rooms, 1, m)
                 IN [err |-> rc.err, s |-> IF rc.err THEN s ELSE rc.s,
                     seq |-> seq2, roomIDMap |-> m]

\* `returned` is the set of positions of the inserted rows that the store's
\* RETURNING clause yields; seq is the value of the id sequence before the
\* call.  The result carries the sequence value after the call.
storeRoomsBatch(s, seq, hotelID, rooms, returned) ==
    IF Len(rooms) = 0
    THEN [err |-> FALSE, s |-> s, seq |-> seq, roomIDMap |-> <<>>]
    ELSE LET s1   == DeleteRooms(s, hotelID)
             rows == [i \in DOMAIN rooms |-> RoomRow(seq + i, hotelID, rooms[i])]
             seq2 == seq + Len(rooms)
             m    == RoomIDMap(seq, rooms, returned)
         IN IF UniqueViolation({RoomKey(r) : r \in s1.hotel_rooms}, [i \in DOMAIN rows |-> RoomKey(rows[i])])
            THEN [err |-> TRUE, s |-> s, seq |-> seq2, roomIDMap |-> <<>>]
            ELSE LET s2 == [s1 EXCEPT !.hotel_rooms = @ \cup Range(rows)]
                     rc == storeRoomChildren(s2, rooms, 1, m)
                 IN [err |-> rc.err, s |-> IF rc.err THEN s ELSE rc.s,
                     seq |-> seq2, roomIDMap |-> m]

\* ------------------------------------------------------------------ reviews
\* client.Review and the row of table reviews it is stored as.
Review(name, rating, title) == [ReviewerName |-> name, Rating |-> rating, Title |-> title]

ReviewRow(hotelID, rv) ==
    [hotel_id |-> hotelID, reviewer_name |-> rv.ReviewerName,
     rating |-> rv.Rating, title |-> rv.Title]

ReviewOf(row) == Review(row.reviewer_name, row.rating, row.title)

\* reviews.hotel_id REFERENCES hotels(hotel_id); CHECK (rating >= 1 AND rating <= 5)
ReviewsConstraintViolation(s, hotelID, reviews) ==
    \/ \A r \in s.hotels : r.hotel_id # hotelID
    \/ \E i \in DOMAIN reviews : reviews[i].Rating < 1 \/ reviews[i].Rating > 5

\* Mutant: the new reviews are added to the ones already stored.
StoreReviews_Append(s, hotelID, reviews) ==
    IF reviews # <<>> /\ ReviewsConstraintViolation(s, hotelID, reviews)
    THEN Res(TRUE, s)
    ELSE Res(FALSE, [s EXCEPT !.reviews =
                        @ \o [i \in DOMAIN reviews |-> ReviewRow(hotelID, reviews[i])]])

\* StoreReviews: the hotel's rows are deleted and the given reviews inserted,
\* in one transaction. The table is kept in insertion (id SERIAL) order.
StoreReviews(s, hotelID, reviews) ==
    IF reviews # <<>> /\ ReviewsConstraintViolation(s, hotelID, reviews)
    THEN Res(TRUE, s)
    ELSE Res(FALSE, [s EXCEPT !.reviews =
                        SelectSeq(@, LAMBDA r : r.hotel_id # hotelID)
                        \o [i \in DOMAIN reviews |-> ReviewRow(hotelID, reviews[i])]])

\* GetHotelReviews: the reviews stored for the hotel.
GetHotelReviews(s, hotelID) ==
    LET rows == SelectSeq(s.reviews, LAMBDA r : r.hotel_id = hotelID)
    IN [i \in DOMAIN rows |-> ReviewOf(rows[i])]

\* ------------------------------------------------------------------ translations
\* client.Translation and the row of table translations it is stored as.
Translation(language, field, text) ==
    [LanguageCode |-> language, FieldName |-> field, TranslatedText |-> text]

TranslationRow(hotelID, t) ==
    [entity_type |-> "hotel", entity_id |-> hotelID, language_code |-> t.LanguageCode,
     field_name |-> t.FieldName, translated_text |-> t.TranslatedText]

TranslationOf(row) == Translation(row.language_code, row.field_name, row.translated_text)

\* UNIQUE(entity_type, entity_id, language_code, field_name)
TranslationKey(r) == <<r.entity_type, r.entity_id, r.language_code, r.field_name>>

\* Mutant: every stored translation of the hotel is deleted, whatever its language.
StoreTranslations_WholeHotel(s, hotelID, translations) ==
    LET kept  == {r \in s.translations :
                    ~(r.entity_type = "hotel" /\ r.entity_id = hotelID)}
        rows  == [i \in DOMAIN translations |-> TranslationRow(hotelID, translations[i])]
    IN IF UniqueViolation({TranslationKey(r) : r \in kept},
                          [i \in DOMAIN rows |-> TranslationKey(rows[i])])
       THEN Res(TRUE, s)
       ELSE Res(FALSE, [s EXCEPT !.translations = kept \cup Range(rows)])

\* StoreTranslations: the rows of the hotel in the languages of the input are
\* deleted and the given translations inserted, in one transaction.
StoreTranslations(s, hotelID, translations) ==
    LET langs == {translations[i].LanguageCode : i \in DOMAIN translations}
        kept  == {r \in s.translations :
                    ~(r.entity_type = "hotel" /\ r.entity_id = hotelID
                      /\ r.language_code \in langs)}
        rows  == [i \in DOMAIN translations |-> TranslationRow(hotelID, translations[i])]
    IN IF UniqueViolation({TranslationKey(r) : r \in kept},
                          [i \in DOMAIN rows |-> TranslationKey(rows[i])])
       THEN Res(TRUE, s)
       ELSE Res(FALSE, [s EXCEPT !.translations = kept \cup Range(rows)])

\* GetHotelTranslations: the translations stored for the hotel in one language.
GetHotelTranslations(s, hotelID, languageCode) ==
    {TranslationOf(r) : r \in {x \in s.translations :
        x.entity_type = "hotel" /\ x.entity_id = hotelID /\ x.language_code = languageCode}}

\* ------------------------------------------------------------------ transaction
NoTx  == [closed |-> TRUE]
NoArg == [none |-> TRUE]
NoBody == [kind |-> "none"]

\* tx.Commit(): the working copy becomes the committed store.
Commit(committed, working) == working

\* Mutant: the error path keeps what the transaction wrote.
Rollback_KeepsWrites(committed, working) == working

\* defer tx.Rollback(): the working copy is discarded.
Rollback(committed, working) == committed

RepoInit ==
    /\ db = EmptyStore
    /\ tx = NoTx
    /\ roomSeq = 0
    /\ clock = 0
    /\ pc = "idle"
    /\ arg = NoArg
    /\ result = "none"
    /\ pre = EmptyStore
    /\ roomIDMap = <<>>
    /\ repeated = FALSE
    /\ op = "none"

\* No data-sync run is in progress.
SyncOff ==
    /\ et = "none"
    /\ idx = 0
    /\ successCount = 0
    /\ unit = "idle"
    /\ body = NoBody
    /\ lang = 0
    /\ allTranslations = <<>>
    /\ fetched = "none"
    /\ stored = "none"
    /\ log = <<>>
    /\ fetches = <<>>
    /\ calls = 0
    /\ before = EmptyStore
    /\ sinceFetch = -1

\* A Go slice of reviews: nil, or a slice (which may be empty) of items.
NilSlice == [nil |-> TRUE, items |-> <<>>]
Slice(items) == [nil |-> FALSE, items |-> items]

\* A Redis key that does not exist.
NoKey == [exists |-> FALSE]

NoResult == [none |-> TRUE]

\* No server is running; the Redis keyspace is empty.
ServerOff ==
    /\ cache = "none"
    /\ rdb = [h \in HotelIds |-> NoKey]
    /\ time = 0
    /\ resp = NoResult
    /\ trace = <<>>
    /\ got = NoResult
    /\ sets = [h \in HotelIds |-> NoResult]
    /\ req = NoResult

\* The writers of the concurrent StoreProperty calls.
Writers == {"A", "B"}

\* A writer that is not in a call.
IdleWriter == [pc |-> "idle", arg |-> NoArg, base |-> EmptyStore, cur |-> EmptyStore,
               now |-> 0, result |-> "none"]

\* No concurrent StoreProperty call is in flight.
WritersOff ==
    /\ writers = [w \in Writers |-> IdleWriter]
    /\ lastCommitted = [h \in HotelIds |-> NoArg]

Init == RepoInit /\ SyncOff /\ ServerOff /\ WritersOff

\* Mutant: an error return leaves the transaction open.
ReturnErr_LeavesTxOpen ==
    /\ db' = db
    /\ tx' = tx
    /\ pc' = "idle"
    /\ result' = "err"

\* Every error return of StoreProperty runs the deferred tx.Rollback().
ReturnErr ==
    /\ db' = Rollback(db, tx)
    /\ tx' = NoTx
    /\ pc' = "idle"
    /\ result' = "err"

\* A statement of the transaction either fails (store error, cancelled or
\* expired context: `fault`) or yields r; on success the call moves to next.
Statement(fault, r, next) ==
    IF fault \/ r.err
    THEN ReturnErr
    ELSE /\ tx' = r.s
         /\ pc' = next
         /\ UNCHANGED <<db, result>>

\* r.db.BeginTx(ctx, nil)
BeginStoreProperty(p, fault) ==
    /\ pc = "idle"
    /\ clock < MaxCalls
    /\ clock' = clock + 1
    /\ op' = "StoreProperty"
    /\ arg' = p
    /\ repeated' = (op = "StoreProperty" /\ arg = p /\ result = "ok")
    /\ pre' = db
    /\ IF fault
       THEN /\ result' = "err"
            /\ UNCHANGED <<db, tx, pc>>
       ELSE /\ tx' = db
            /\ pc' = "storeHotel"
            /\ result' = "none"
            /\ UNCHANGED db
    /\ roomIDMap' = <<>>
    /\ UNCHANGED roomSeq

StoreHotelStep(fault) ==
    /\ pc = "storeHotel"
    /\ Statement(fault, storeHotel(tx, arg, clock), "storeAddress")
    /\ UNCHANGED <<roomSeq, clock, arg, pre, roomIDMap, op, repeated, syncVars, serverVars, writerVars>>

StoreAddressStep(fault) ==
    /\ pc = "storeAddress"
    /\ Statement(fault, storeAddress(tx, arg.HotelID, arg.Address), "storeCheckin")
    /\ UNCHANGED <<roomSeq, clock, arg, pre, roomIDMap, op, repeated, syncVars, serverVars, writerVars>>

StoreCheckinStep(fault) ==
    /\ pc = "storeCheckin"
    /\ Statement(fault, storeCheckin(tx, arg.HotelID, arg.Checkin), "storePhotos")
    /\ UNCHANGED <<roomSeq, clock, arg, pre, roomIDMap, op, repeated, syncVars, serverVars, writerVars>>

StorePhotosStep(fault) ==
    /\ pc = "storePhotos"
    /\ Statement(fault, storePhotosBatch(tx, arg.HotelID, arg.Photos), "storeFacilities")
    /\ UNCHANGED <<roomSeq, clock, arg, pre, roomIDMap, op, repeated, syncVars, serverVars, writerVars>>

StoreFacilitiesStep(fault) ==
    /\ pc = "storeFacilities"
    /\ Statement(fault, storeFacilitiesBatch(tx, arg.HotelID, arg.Facilities), "storePolicies")
    /\ UNCHANGED <<roomSeq, clock, arg, pre, roomIDMap, op, repeated, syncVars, serverVars, writerVars>>

StorePoliciesStep(fault) ==
    /\ pc = "storePolicies"
    /\ Statement(fault, storePoliciesBatch(tx, arg.HotelID, arg.Policies), "storeRooms")
    /\ UNCHANGED <<roomSeq, clock, arg, pre, roomIDMap, op, repeated, syncVars, serverVars, writerVars>>

StoreRoomsStep(fault, returned) ==
    /\ pc = "storeRooms"
    /\ LET r == storeRoomsBatch(tx, roomSeq, arg.HotelID, arg.Rooms, returned)
       IN /\ Statement(fault, r, "commit")
          /\ roomSeq' = IF fault THEN roomSeq ELSE r.seq
          /\ roomIDMap' = IF fault THEN roomIDMap ELSE r.roomIDMap
    /\ UNCHANGED <<clock, arg, pre, op, repeated, syncVars, serverVars, writerVars>>

CommitStep(fault) ==
    /\ pc = "commit"
    /\ IF fault
       THEN ReturnErr
       ELSE /\ db' = Commit(db, tx)
            /\ tx' = NoTx
            /\ pc' = "idle"
            /\ result' = "ok"
    /\ UNCHANGED <<roomSeq, clock, arg, pre, roomIDMap, op, repeated, syncVars, serverVars, writerVars>>

\* A call of an operation that runs as one transaction: begin, the statements
\* (r is their outcome on the committed store), commit; `fault` is a store
\* error or a cancelled context anywhere in between.
Transaction(name, a, r, fault) ==
    /\ pc = "idle"
    /\ clock < MaxCalls
    /\ clock' = clock + 1
    /\ op' = name
    /\ arg' = a
    /\ repeated' = (op = name /\ arg = a /\ result = "ok")
    /\ pre' = db
    /\ IF fault \/ r.err
       THEN /\ db' = Rollback(db, r.s)
            /\ result' = "err"
       ELSE /\ db' = Commit(db, r.s)
            /\ result' = "ok"
    /\ UNCHANGED <<tx, pc, roomSeq, roomIDMap>>

StoreReviewsCall(hotelID, reviews, fault) ==
    Transaction("StoreReviews", [HotelID |-> hotelID, Reviews |-> reviews],
                StoreReviews(db, hotelID, reviews), fault)

StoreTranslationsCall(hotelID, translations, fault) ==
    Transaction("StoreTranslations", [HotelID |-> hotelID, Translations |-> translations],
                StoreTranslations(db, hotelID, translations), fault)

\* The store returns every inserted row from INSERT ... RETURNING.
AllRows(rooms) == DOMAIN rooms

\* A store that breaks that contract may return any part of the inserted rows.
SomeRows(rooms) == SUBSET (DOMAIN rooms)

\* The steps of StoreProperty up to the rooms.
StorePropertyUntilRooms ==
    \/ \E p \in PropertyInputs, fault \in BOOLEAN :
          BeginStoreProperty(p, fault) /\ UNCHANGED <<syncVars, serverVars, writerVars>>
    \/ \E fault \in BOOLEAN : StoreHotelStep(fault)
    \/ \E fault \in BOOLEAN : StoreAddressStep(fault)
    \/ \E fault \in BOOLEAN : StoreCheckinStep(fault)
    \/ \E fault \in BOOLEAN : StorePhotosStep(fault)
    \/ \E fault \in BOOLEAN : StoreFacilitiesStep(fault)
    \/ \E fault \in BOOLEAN : StorePoliciesStep(fault)

Next ==
    \/ StorePropertyUntilRooms
    \/ \E fault \in BOOLEAN : StoreRoomsStep(fault, AllRows(arg.Rooms))
    \/ \E fault \in BOOLEAN : CommitStep(fault)

Spec == Init /\ [][Next]_vars

\* StoreProperty against a store whose RETURNING result may be incomplete.
NextContract ==
    \/ StorePropertyUntilRooms
    \/ /\ pc = "storeRooms"
       /\ \E fault \in BOOLEAN : \E returned \in SomeRows(arg.Rooms) :
             StoreRoomsStep(fault, returned)
    \/ \E fault \in BOOLEAN : CommitStep(fault)

SpecContract == Init /\ [][NextContract]_vars

\* The statements of a StoreProperty call that has begun.
StorePropertyBody ==
    \/ \E fault \in BOOLEAN : StoreHotelStep(fault)
    \/ \E fault \in BOOLEAN : StoreAddressStep(fault)
    \/ \E fault \in BOOLEAN : StoreCheckinStep(fault)
    \/ \E fault \in BOOLEAN : StorePhotosStep(fault)
    \/ \E fault \in BOOLEAN : StoreFacilitiesStep(fault)
    \/ \E fault \in BOOLEAN : StorePoliciesStep(fault)
    \/ \E fault \in BOOLEAN : StoreRoomsStep(fault, AllRows(arg.Rooms))
    \/ \E fault \in BOOLEAN : CommitStep(fault)

\* Reviews of hotels stored by StoreProperty.
ReviewA   == Review("ann", 5, "great")
ReviewB   == Review("bob", 3, "fine")
ReviewC   == Review("cat", 1, "poor")
ReviewBad == Review("dan", 6, "off the scale")

ReviewInputs ==
    {<<>>, <<ReviewA, ReviewB>>, <<ReviewC>>, <<ReviewA, ReviewA>>, <<ReviewBad>>}

ReviewHotelInputs ==
    {Property(1, 3, 4, 3, <<"E", "E", "E", "E", "E">>),
     Property(2, 5, 5, 5, <<"A", "A", "A", "A", "A">>)}

NextReviews ==
    \/ \E p \in ReviewHotelInputs, fault \in BOOLEAN :
          BeginStoreProperty(p, fault) /\ UNCHANGED <<syncVars, serverVars, writerVars>>
    \/ StorePropertyBody
    \/ \E hotelID \in HotelIds, reviews \in ReviewInputs, fault \in BOOLEAN :
          StoreReviewsCall(hotelID, reviews, fault) /\ UNCHANGED <<syncVars, serverVars, writerVars>>

SpecReviews == Init /\ [][NextReviews]_vars

\* ================================================================== data-sync
\* The batch list, three hotels long here.
allHotelIDs == <<1, 2, 3>>

ContentEndpoint      == "content"
ReviewsEndpoint      == "reviews"
TranslationsEndpoint == "translations"
EndpointTypes == {ContentEndpoint, ReviewsEndpoint, TranslationsEndpoint}

languages == <<"fr", "es", "en">>

StatusOK == 200

\* What the HTTP round trip of Client.Do yields: a transport error or a response.
TransportError == [transport |-> TRUE]
\* A response that carries an X-Request-Id header; Header.Get yields "" when
\* the header is missing.
ResponseWithID(status, b, id) ==
    [transport |-> FALSE, StatusCode |-> status, Body |-> b, RequestID |-> id]
Response(status, b) == ResponseWithID(status, b, "")

\* A response body: no bytes, bytes that are not JSON, or the JSON text of v.
BodyEmpty   == [kind |-> "empty"]
BodyGarbage == [kind |-> "garbage"]
BodyJSON(v) == [kind |-> "json", value |-> v]

BodyLen(b) == IF b.kind \in {"none", "empty"} THEN 0 ELSE 1

\* Mutant: the typed error does not take the request id of the response.
Do_NoRequestID(response) ==
    IF response.transport
    THEN [body |-> NoBody, StatusCode |-> 0, RequestID |-> "", err |-> "transport"]
    ELSE IF response.StatusCode >= 200 /\ response.StatusCode < 300
    THEN [body |-> response.Body, StatusCode |-> response.StatusCode, RequestID |-> "",
          err |-> "none"]
    ELSE IF response.StatusCode >= 400 /\ response.StatusCode <= 599
    THEN [body |-> NoBody, StatusCode |-> response.StatusCode, RequestID |-> "",
          err |-> "Error"]
    ELSE [body |-> NoBody, StatusCode |-> response.StatusCode, RequestID |-> "",
          err |-> "unexpected"]

\* Client.Do: the body for 2xx, a typed *Error with the status and the
\* X-Request-Id of the response for 4xx and for 5xx, a plain error for any
\* other status and for a transport error.
Do(response) ==
    IF response.transport
    THEN [body |-> NoBody, StatusCode |-> 0, RequestID |-> "", err |-> "transport"]
    ELSE IF response.StatusCode >= 200 /\ response.StatusCode < 300
    THEN [body |-> response.Body, StatusCode |-> response.StatusCode, RequestID |-> "",
          err |-> "none"]
    ELSE IF response.StatusCode >= 400 /\ response.StatusCode <= 499
    THEN [body |-> NoBody, StatusCode |-> response.StatusCode,
          RequestID |-> response.RequestID, err |-> "Error"]
    ELSE IF response.StatusCode >= 500 /\ response.StatusCode <= 599
    THEN [body |-> NoBody, StatusCode |-> response.StatusCode,
          RequestID |-> response.RequestID, err |-> "Error"]
    ELSE [body |-> NoBody, StatusCode |-> response.StatusCode, RequestID |-> "",
          err |-> "unexpected"]

\* json.Unmarshal of the body.
Unmarshal(b) ==
    IF b.kind = "json" THEN [err |-> FALSE, value |-> b.value]
                       ELSE [err |-> TRUE, value |-> NoArg]

ParseProperty(b)     == Unmarshal(b)
ParseReviews(b)      == Unmarshal(b)
ParseTranslations(b) == Unmarshal(b)

\* What the external API holds for a hotel.
FetchedProperty(h) == Property(h, 4, 5, 4, <<"A", "A", "A", "A", "A">>)
FetchedReviews(h) == <<ReviewA, ReviewB>>
FetchedTranslations(h, l) == <<Translation("", "hotel_name", l)>>

SyncBodies(kind, h, l) ==
    {BodyEmpty, BodyGarbage} \cup
    CASE kind = ContentEndpoint      -> {BodyJSON(FetchedProperty(h))}
      [] kind = ReviewsEndpoint      -> {BodyJSON(<<>>), BodyJSON(FetchedReviews(h))}
      [] kind = TranslationsEndpoint -> {BodyJSON(FetchedTranslations(h, l))}

SyncResponses(kind, h, l) ==
    {TransportError}
    \cup {Response(StatusOK, b) : b \in SyncBodies(kind, h, l)}
    \cup {Response(status, BodyEmpty) : status \in {204, 302, 404, 500}}

\* History: "ok" for a 200 carrying the hotel's data, "500" for a 500, "other"
\* otherwise; the fetches of one hotel together are "ok" / "500" when all are.
FetchClass(response) ==
    IF response.transport THEN "other"
    ELSE IF response.StatusCode = 500 THEN "500"
    ELSE IF response.StatusCode = StatusOK /\ response.Body.kind = "json"
            /\ response.Body.value # <<>> THEN "ok"
    ELSE "other"

Fetched(sofar, response) ==
    IF sofar \in {"none", FetchClass(response)} THEN FetchClass(response) ELSE "other"

\* A store holding the three hotels, each stored by an earlier content sync of
\* a Property with empty collections (the batch steps of StoreProperty return
\* at once on them).
SeedProperty(h) == Property(h, 3, 4, 3, <<"E", "E", "E", "E", "E">>)

SeedHotel(s, h) ==
    LET p  == SeedProperty(h)
        s1 == storeHotel(s, p, 0).s
        s2 == storeAddress(s1, h, p.Address).s
    IN storeCheckin(s2, h, p.Checkin).s

SeededStore == SeedHotel(SeedHotel(SeedHotel(EmptyStore, 1), 2), 3)

\* A batch run of data-sync -e et starts, on an empty or on a seeded store.
SyncInit ==
    /\ db \in {EmptyStore, SeededStore}
    /\ pre = db
    /\ tx = NoTx
    /\ roomSeq = 0
    /\ clock = 0
    /\ pc = "idle"
    /\ arg = NoArg
    /\ result = "none"
    /\ roomIDMap = <<>>
    /\ repeated = FALSE
    /\ op = "none"
    /\ et \in EndpointTypes
    /\ idx = 1
    /\ successCount = 0
    /\ unit = "idle"
    /\ body = NoBody
    /\ lang = 0
    /\ allTranslations = <<>>
    /\ fetched = "none"
    /\ stored = "none"
    /\ log = <<>>
    /\ fetches = <<>>
    /\ calls = 0
    /\ before = db
    /\ sinceFetch = -1
    /\ ServerOff
    /\ WritersOff

hotelID == allHotelIDs[idx]

\* History: the fetch that Do answered with r, and what parsing its body gave
\* ("none" when the body was not parsed).
\* gap is the time slept between the return of the fetch before it and its
\* start.
Fetch(language, r, parse) ==
    [lang |-> language, do |-> r.err, status |-> r.StatusCode, parse |-> parse,
     gap |-> sinceFetch]

\* syncHotel up to the switch: connect to the database, build the client.
SyncHotel(fault) ==
    /\ et # "none"
    /\ idx \in DOMAIN allHotelIDs
    /\ unit = "idle"
    /\ unit' = IF fault THEN "failed" ELSE "fetching"
    /\ lang' = 1
    /\ allTranslations' = <<>>
    /\ fetched' = "none"
    /\ stored' = "none"
    /\ body' = NoBody
    /\ fetches' = <<>>
    /\ calls' = 0
    /\ before' = db
    /\ UNCHANGED <<repoVars, et, idx, successCount, log, sinceFetch>>
    /\ UNCHANGED <<serverVars, writerVars>>

\* Mutant: only a transport error ends the unit.
RequestFailed_TransportOnly(r) == r.err = "transport"

\* syncHotelContent / syncHotelReviews: `if err != nil` and
\* `if resp.StatusCode != http.StatusOK` after c.Do.
RequestFailed(r) == r.err # "none" \/ r.StatusCode # StatusOK

\* syncHotelContent / syncHotelReviews: c.Do and the status check.
SyncFetch ==
    /\ et \in {ContentEndpoint, ReviewsEndpoint}
    /\ unit = "fetching"
    /\ \E response \in SyncResponses(et, hotelID, "") :
          /\ LET r == Do(response)
             IN /\ IF RequestFailed(r)
                   THEN unit' = "failed" /\ body' = NoBody
                   ELSE unit' = "parsing" /\ body' = r.body
                /\ fetches' = Append(fetches, Fetch("", r, "none"))
          /\ fetched' = Fetched(fetched, response)
    /\ sinceFetch' = 0
    /\ UNCHANGED <<repoVars, et, idx, successCount, lang, allTranslations, stored, log,
                   calls, before>>
    /\ UNCHANGED <<serverVars, writerVars>>

\* syncHotelContent: ParseProperty and the call of StoreProperty.
SyncParseContent(fault) ==
    /\ et = ContentEndpoint
    /\ unit = "parsing"
    /\ LET r == ParseProperty(body)
       IN IF r.err
          THEN /\ unit' = "failed"
               /\ fetches' = [fetches EXCEPT ![Len(fetches)].parse = "err"]
               /\ UNCHANGED <<repoVars, calls>>
          ELSE /\ unit' = "persisting"
               /\ fetches' = [fetches EXCEPT ![Len(fetches)].parse = "ok"]
               /\ calls' = calls + 1
               /\ BeginStoreProperty(r.value, fault)
    /\ UNCHANGED <<et, idx, successCount, body, lang, allTranslations, fetched, stored, log,
                   before, sinceFetch>>
    /\ UNCHANGED <<serverVars, writerVars>>

\* Mutant: the body is parsed and the list stored whatever their lengths.
SyncParseReviews_StoresEmpty(fault) ==
    /\ et = ReviewsEndpoint
    /\ unit = "parsing"
    /\ LET r == ParseReviews(body)
       IN IF r.err
          THEN /\ unit' = "failed"
               /\ fetches' = [fetches EXCEPT ![Len(fetches)].parse = "err"]
               /\ UNCHANGED <<repoVars, calls>>
          ELSE /\ unit' = "persisting"
               /\ fetches' = [fetches EXCEPT ![Len(fetches)].parse = "ok"]
               /\ calls' = calls + 1
               /\ StoreReviewsCall(hotelID, r.value, fault)
    /\ UNCHANGED <<et, idx, successCount, body, lang, allTranslations, fetched, stored, log,
                   before, sinceFetch>>
    /\ UNCHANGED <<serverVars, writerVars>>

\* syncHotelReviews: ParseReviews and the call of StoreReviews.
SyncParseReviews(fault) ==
    /\ et = ReviewsEndpoint
    /\ unit = "parsing"
    /\ LET r == ParseReviews(body)
       IN IF BodyLen(body) = 0
          THEN unit' = "done" /\ UNCHANGED <<repoVars, fetches, calls>>
          ELSE IF r.err
          THEN /\ unit' = "failed"
               /\ fetches' = [fetches EXCEPT ![Len(fetches)].parse = "err"]
               /\ UNCHANGED <<repoVars, calls>>
          ELSE IF Len(r.value) = 0
          THEN /\ unit' = "done"
               /\ fetches' = [fetches EXCEPT ![Len(fetches)].parse = "ok"]
               /\ UNCHANGED <<repoVars, calls>>
          ELSE /\ unit' = "persisting"
               /\ fetches' = [fetches EXCEPT ![Len(fetches)].parse = "ok"]
               /\ calls' = calls + 1
               /\ StoreReviewsCall(hotelID, r.value, fault)
    /\ UNCHANGED <<et, idx, successCount, body, lang, allTranslations, fetched, stored, log,
                   before, sinceFetch>>
    /\ UNCHANGED <<serverVars, writerVars>>

\* Mutant: the translations of a language take the place of the ones gathered.
Gather_Replace(all, translations, language) ==
    [i \in DOMAIN translations |-> [translations[i] EXCEPT !.LanguageCode = language]]

\* syncHotelTranslations: the parsed translations of a language, stamped with
\* it, are appended to allTranslations.
Gather(all, translations, language) ==
    all \o [i \in DOMAIN translations |-> [translations[i] EXCEPT !.LanguageCode = language]]

\* syncHotelTranslations: one round of the loop over languages.
SyncFetchTranslations ==
    /\ et = TranslationsEndpoint
    /\ unit = "fetching"
    /\ lang \in DOMAIN languages
    /\ \E response \in SyncResponses(et, hotelID, languages[lang]) :
          /\ LET r == Do(response)
                 t == ParseTranslations(r.body)
             IN IF r.err # "none"
                THEN /\ allTranslations' = allTranslations
                     /\ fetches' = Append(fetches, Fetch(languages[lang], r, "none"))
                ELSE IF r.StatusCode = StatusOK /\ BodyLen(r.body) > 0
                THEN IF t.err
                     THEN /\ allTranslations' = allTranslations
                          /\ fetches' = Append(fetches, Fetch(languages[lang], r, "err"))
                     ELSE /\ allTranslations' =
                                Gather(allTranslations, t.value, languages[lang])
                          /\ fetches' = Append(fetches, Fetch(languages[lang], r, "ok"))
                ELSE /\ allTranslations' = allTranslations
                     /\ fetches' = Append(fetches, Fetch(languages[lang], r, "none"))
          /\ fetched' = Fetched(fetched, response)
    /\ lang' = lang + 1
    /\ sinceFetch' = 0
    /\ UNCHANGED <<repoVars, et, idx, successCount, unit, body, stored, log, calls, before>>
    /\ UNCHANGED <<serverVars, writerVars>>

\* syncHotelTranslations after the loop: the call of StoreTranslations.
SyncStoreTranslations(fault) ==
    /\ et = TranslationsEndpoint
    /\ unit = "fetching"
    /\ lang \notin DOMAIN languages
    /\ IF Len(allTranslations) > 0
       THEN /\ unit' = "persisting"
            /\ calls' = calls + 1
            /\ StoreTranslationsCall(hotelID, allTranslations, fault)
       ELSE unit' = "done" /\ UNCHANGED <<repoVars, calls>>
    /\ UNCHANGED <<et, idx, successCount, body, lang, allTranslations, fetched, stored, log,
                   fetches, before, sinceFetch>>
    /\ UNCHANGED <<serverVars, writerVars>>

\* The repository call returns to the sync function.
SyncStoreReturn ==
    /\ unit = "persisting"
    /\ pc = "idle"
    /\ unit' = IF result = "ok" THEN "done" ELSE "failed"
    /\ stored' = result
    /\ UNCHANGED <<repoVars, et, idx, successCount, body, lang, allTranslations, fetched, log,
                   histVars>>
    /\ UNCHANGED <<serverVars, writerVars>>

\* The delay of the batch loop, in ms.
BatchDelay == 100

\* Mutant: the batch loop does not sleep.
Sleep_Returns(since, d) == since

\* time.Sleep(d) on a run whose last fetch returned `since` ms of sleep ago.
Sleep(since, d) == IF since < 0 THEN since ELSE since + d

\* Mutant: the loop passes over the hotel that follows.
RangeNext_Skip(i) == i + 2

\* for i, hotelID := range allHotelIDs
RangeNext(i) == i + 1

\* The batch loop: syncHotel has returned; count, sleep, next hotel.
SyncNext ==
    /\ et # "none"
    /\ idx \in DOMAIN allHotelIDs
    /\ unit \in {"done", "failed"}
    /\ successCount' = IF unit = "done" THEN successCount + 1 ELSE successCount
    /\ log' = Append(log, [hotel |-> hotelID, fetched |-> fetched, stored |-> stored,
                           err |-> unit = "failed"])
    /\ idx' = RangeNext(idx)
    /\ unit' = "idle"
    /\ body' = NoBody
    /\ lang' = 0
    /\ allTranslations' = <<>>
    /\ fetched' = "none"
    /\ stored' = "none"
    /\ fetches' = <<>>
    /\ calls' = 0
    /\ before' = db
    /\ sinceFetch' = Sleep(sinceFetch, BatchDelay)
    /\ UNCHANGED <<repoVars, et>>
    /\ UNCHANGED <<serverVars, writerVars>>

NextSync ==
    \/ \E fault \in BOOLEAN : SyncHotel(fault)
    \/ SyncFetch
    \/ \E fault \in BOOLEAN : SyncParseContent(fault)
    \/ \E fault \in BOOLEAN : SyncParseReviews(fault)
    \/ SyncFetchTranslations
    \/ \E fault \in BOOLEAN : SyncStoreTranslations(fault)
    \/ StorePropertyBody
    \/ SyncStoreReturn
    \/ SyncNext

SpecSync == SyncInit /\ [][NextSync]_vars

\* ================================================================== cache
\* json.Marshal of a []client.Review: null for a nil slice, else an array.
Marshal(reviews) ==
    IF reviews.nil THEN [text |-> "null"]
                   ELSE [text |-> "array", value |-> reviews.items]

\* A value under the key that is not the JSON of a review list.
Garbled == [text |-> "garbled"]

\* json.Unmarshal([]byte(val), &reviews) with reviews a nil slice beforehand.
UnmarshalReviews(data) ==
    CASE data.text = "null"  -> [reviews |-> NilSlice, err |-> "none"]
      [] data.text = "array" -> [reviews |-> Slice(data.value), err |-> "none"]
      [] OTHER               -> [reviews |-> NilSlice, err |-> "json unmarshal error"]

\* Mutant: a key outlives its expiry.
Live_NeverExpires(entry, t) == entry.exists

\* Redis: a key set with an expiry is gone once the expiry has passed.
Live(entry, t) == entry.exists /\ t < entry.expires

\* RedisCache.GetReviews; redis.Nil (no such key) is returned as nil, nil.
GetReviews(keys, t, id, fault) ==
    IF fault THEN [reviews |-> NilSlice, err |-> "redis get error"]
    ELSE IF ~Live(keys[id], t) THEN [reviews |-> NilSlice, err |-> "none"]
    ELSE UnmarshalReviews(keys[id].data)

\* Mutant: the key is set with twice the ttl.
SetReviews_LongerExpiry(keys, t, id, reviews, ttl, fault) ==
    IF fault THEN [keys |-> keys, err |-> "redis set error"]
    ELSE [keys |-> [keys EXCEPT ![id] = [exists |-> TRUE, data |-> Marshal(reviews),
                                          expires |-> t + ttl + ttl]],
          err |-> "none"]

\* RedisCache.SetReviews
SetReviews(keys, t, id, reviews, ttl, fault) ==
    IF fault THEN [keys |-> keys, err |-> "redis set error"]
    ELSE [keys |-> [keys EXCEPT ![id] = [exists |-> TRUE, data |-> Marshal(reviews),
                                          expires |-> t + ttl]],
          err |-> "none"]

\* RedisCache.DeleteReviews
DeleteReviews(keys, id, fault) ==
    IF fault THEN [keys |-> keys, err |-> "redis del error"]
    ELSE [keys |-> [keys EXCEPT ![id] = NoKey], err |-> "none"]

\* History: the SetReviews that wrote the key.
LastSet(reviews, t, ttl) == [reviews |-> reviews, at |-> t, ttl |-> ttl, garbled |-> FALSE]

\* A client of the cache calls GetReviews.
CacheGet(id, fault) ==
    /\ LET r == GetReviews(rdb, time, id, fault)
       IN got' = [hotel |-> id, at |-> time, last |-> sets[id], fault |-> fault,
                  reviews |-> r.reviews, err |-> r.err]
    /\ UNCHANGED <<repoVars, syncVars, writerVars, cache, rdb, time, resp, trace, sets, req>>

\* A client of the cache calls SetReviews.
CacheSet(id, reviews, ttl, fault) ==
    /\ LET r == SetReviews(rdb, time, id, reviews, ttl, fault)
       IN /\ rdb' = r.keys
          /\ sets' = IF r.err = "none"
                     THEN [sets EXCEPT ![id] = LastSet(reviews, time, ttl)]
                     ELSE sets
    /\ UNCHANGED <<repoVars, syncVars, writerVars, cache, time, resp, trace, got, req>>

\* A client of the cache calls DeleteReviews.
CacheDelete(id, fault) ==
    /\ LET r == DeleteReviews(rdb, id, fault)
       IN /\ rdb' = r.keys
          /\ sets' = IF r.err = "none" THEN [sets EXCEPT ![id] = NoResult] ELSE sets
    /\ UNCHANGED <<repoVars, syncVars, writerVars, cache, time, resp, trace, got, req>>

\* Something else writes a value that is not a review list under the key.
ForeignSet(id, ttl) ==
    /\ rdb' = [rdb EXCEPT ![id] = [exists |-> TRUE, data |-> Garbled, expires |-> time + ttl]]
    /\ sets' = [sets EXCEPT ![id] = [LastSet(NilSlice, time, ttl) EXCEPT !.garbled = TRUE]]
    /\ UNCHANGED <<repoVars, syncVars, writerVars, cache, time, resp, trace, got, req>>

\* Time passes.
MaxTime == 3

Tick ==
    /\ time < MaxTime
    /\ time' = time + 1
    /\ UNCHANGED <<repoVars, syncVars, writerVars, cache, rdb, resp, trace, got, sets, req>>

CacheLists == {NilSlice, Slice(<<>>), Slice(<<ReviewA, ReviewB>>)}
CacheTTLs == {1, 2}
CacheHotels == {1}

NextCache ==
    \/ \E id \in CacheHotels, fault \in BOOLEAN : CacheGet(id, fault)
    \/ \E id \in CacheHotels, reviews \in CacheLists, ttl \in CacheTTLs, fault \in BOOLEAN :
          CacheSet(id, reviews, ttl, fault)
    \/ \E id \in CacheHotels, fault \in BOOLEAN : CacheDelete(id, fault)
    \/ \E id \in CacheHotels, ttl \in CacheTTLs : ForeignSet(id, ttl)
    \/ Tick

SpecCache == Init /\ [][NextCache]_vars

\* ================================================================== server
\* The value of Server.cache, a cache.ReviewCache interface.
Connected == "redis"      \* a *RedisCache whose ping succeeded
TypedNil  == "typednil"   \* the interface holding a nil *RedisCache
NoCache   == "nil"        \* the nil interface

\* main: when the ping fails, the *RedisCache variable is set to nil and then
\* passed to NewServer as a cache.ReviewCache.
NewServerCache(pingErr) == IF pingErr THEN TypedNil ELSE Connected

\* s.cache != nil: an interface holding a nil pointer is not the nil interface.
CacheConfigured(c) == c # NoCache

\* 5*time.Minute, in ticks of one minute.
ReviewsTTL == 5

\* Mutant: an errored Get counts as a hit.
CacheHit_OnError(g) == g.err # "none" \/ ~g.reviews.nil

\* err == nil && cachedReviews != nil
CacheHit(g) == g.err = "none" /\ ~g.reviews.nil

\* One call made by the handler: the operation, the list it returned or was
\* given, its error and (for SetReviews) the ttl.
Called(name, reviews, err, ttl) ==
    [op |-> name, reviews |-> reviews, err |-> err, ttl |-> ttl]

\* Mutant: the response never says it came from the cache.
OKResponse_NotFromCache(id, reviews, fromCache) ==
    [status |-> 200, hotel_id |-> id, reviews |-> Marshal(reviews),
     count |-> Len(reviews.items), from_cache |-> FALSE]

\* The 200 response; "reviews" is the JSON of the list.
OKResponse(id, reviews, fromCache) ==
    [status |-> 200, hotel_id |-> id, reviews |-> Marshal(reviews),
     count |-> Len(reviews.items), from_cache |-> fromCache]

\* http.Error(w, "Internal server error", 500)
ErrorResponse == [status |-> 500]

\* The handler panicked: net/http closes the connection without a response.
Panicked == [panic |-> TRUE]

\* Mutant: a failed SetReviews fails the request.
AfterSet_Fails(response, cacheErr) ==
    IF cacheErr # "none" THEN ErrorResponse ELSE response

\* A failed SetReviews is logged and the request goes on.
AfterSet(response, cacheErr) == response

\* The server starts on a store that holds the hotels: from main, with the
\* ping failing or not, or with no cache given to NewServer.
ServerInit ==
    /\ db = SeededStore
    /\ pre = SeededStore
    /\ tx = NoTx
    /\ roomSeq = 0
    /\ clock = 0
    /\ pc = "idle"
    /\ arg = NoArg
    /\ result = "none"
    /\ roomIDMap = <<>>
    /\ repeated = FALSE
    /\ op = "none"
    /\ SyncOff
    /\ cache \in {NewServerCache(TRUE), NewServerCache(FALSE), NoCache}
    /\ rdb = [h \in HotelIds |-> NoKey]
    /\ time = 0
    /\ resp = NoResult
    /\ trace = <<>>
    /\ got = NoResult
    /\ sets = [h \in HotelIds |-> NoResult]
    /\ req = NoResult
    /\ WritersOff

\* GET /api/v1/hotels/{hotelID}/reviews. A lookup that finds no rows returns a
\* nil or an empty list (nilRows).
getHotelReviewsHandler(id, getFault, lookupFault, nilRows, setFault) ==
    LET rows     == GetHotelReviews(db, id)
        found    == IF rows = <<>> /\ nilRows THEN NilSlice ELSE Slice(rows)
        g        == GetReviews(rdb, time, id, getFault)
        getOp    == Called("GetReviews", g.reviews, g.err, 0)
        lookupOp == Called("GetHotelReviews", found,
                           IF lookupFault THEN "db error" ELSE "none", 0)
        s        == SetReviews(rdb, time, id, found, ReviewsTTL, setFault)
        setOp    == Called("SetReviews", found, s.err, ReviewsTTL)
        gets     == IF CacheConfigured(cache) THEN <<getOp>> ELSE <<>>
    IN /\ cache # "none"
       /\ CASE cache = TypedNil ->
                 \* GetReviews on a nil *RedisCache dereferences r.client
                 /\ resp' = Panicked
                 /\ trace' = <<Called("GetReviews", NilSlice, "panic", 0)>>
                 /\ UNCHANGED <<rdb, sets>>
            [] CacheConfigured(cache) /\ cache # TypedNil /\ CacheHit(g) ->
                 /\ resp' = OKResponse(id, g.reviews, TRUE)
                 /\ trace' = gets
                 /\ UNCHANGED <<rdb, sets>>
            [] OTHER ->
                 IF lookupFault
                 THEN /\ resp' = ErrorResponse
                      /\ trace' = gets \o <<lookupOp>>
                      /\ UNCHANGED <<rdb, sets>>
                 ELSE IF CacheConfigured(cache)
                 THEN /\ resp' = AfterSet(OKResponse(id, found, FALSE), s.err)
                      /\ trace' = gets \o <<lookupOp, setOp>>
                      /\ rdb' = s.keys
                      /\ sets' = IF s.err = "none"
                                 THEN [sets EXCEPT ![id] = LastSet(found, time, ReviewsTTL)]
                                 ELSE sets
                 ELSE /\ resp' = OKResponse(id, found, FALSE)
                      /\ trace' = <<lookupOp>>
                      /\ UNCHANGED <<rdb, sets>>
       /\ UNCHANGED <<repoVars, syncVars, writerVars, cache, time, got>>

\* The cache ttl of the reviews elapses.
TTLElapses ==
    /\ time < MaxTime
    /\ time' = time + ReviewsTTL
    /\ UNCHANGED <<repoVars, syncVars, writerVars, cache, rdb, resp, trace, got, sets, req>>

ServerHotels == {1, 2}
ServerReviews == {<<>>, <<ReviewA, ReviewB>>}

NextServer ==
    \/ \E id \in ServerHotels, getFault \in BOOLEAN, lookupFault \in BOOLEAN,
          nilRows \in BOOLEAN, setFault \in BOOLEAN :
          getHotelReviewsHandler(id, getFault, lookupFault, nilRows, setFault)
          /\ UNCHANGED req
    \/ \E reviews \in ServerReviews, fault \in BOOLEAN :
          StoreReviewsCall(1, reviews, fault) /\ UNCHANGED <<syncVars, serverVars, writerVars>>
    \/ TTLElapses

SpecServer == ServerInit /\ [][NextServer]_vars

\* ================================================================== concurrent writers
\* Several StoreProperty calls in flight at once, each in its own transaction
\* (BeginTx with the default isolation level, READ COMMITTED): a statement
\* sees the committed store with the transaction's own changes applied, and
\* the changes of a transaction reach the committed store at its commit.

\* A table of rows: the rows the transaction deleted are gone, the rows it
\* inserted are there (b: the table when the transaction last looked, c: the
\* table after its statements).
SetDelta(table, b, c) == (table \ (b \ c)) \cup (c \ b)

\* A table of one row per hotel.
RowDelta(table, b, c) == [h \in HotelIds |-> IF c[h] # b[h] THEN c[h] ELSE table[h]]

\* The store as the transaction with changes b -> c sees it.
View(s, b, c) ==
    [hotels                     |-> SetDelta(s.hotels, b.hotels, c.hotels),
     hotel_addresses            |-> RowDelta(s.hotel_addresses, b.hotel_addresses, c.hotel_addresses),
     hotel_checkins             |-> RowDelta(s.hotel_checkins, b.hotel_checkins, c.hotel_checkins),
     hotel_checkin_instructions |-> SetDelta(s.hotel_checkin_instructions,
                                             b.hotel_checkin_instructions,
                                             c.hotel_checkin_instructions),
     hotel_photos               |-> SetDelta(s.hotel_photos, b.hotel_photos, c.hotel_photos),
     hotel_facilities           |-> SetDelta(s.hotel_facilities, b.hotel_facilities, c.hotel_facilities),
     hotel_policies             |-> SetDelta(s.hotel_policies, b.hotel_policies, c.hotel_policies),
     hotel_rooms                |-> SetDelta(s.hotel_rooms, b.hotel_rooms, c.hotel_rooms),
     room_bed_types             |-> SetDelta(s.room_bed_types, b.room_bed_types, c.room_bed_types),
     room_amenities             |-> SetDelta(s.room_amenities, b.room_amenities, c.room_amenities),
     room_photos                |-> SetDelta(s.room_photos, b.room_photos, c.room_photos),
     reviews                    |-> s.reviews,
     translations               |-> s.translations]

\* storePhotosBatch, statement by statement.
\* DELETE FROM hotel_photos WHERE hotel_id = $1
deletePhotos(s, id) ==
    Res(FALSE, [s EXCEPT !.hotel_photos = {r \in @ : r.hotel_id # id}])

\* INSERT INTO hotel_photos (...) VALUES ...
insertPhotos(s, id, photos) ==
    LET rows == [i \in DOMAIN photos |-> PhotoRow(id, photos[i])]
    IN IF UniqueViolation({PhotoKey(r) : r \in s.hotel_photos},
                          [i \in DOMAIN rows |-> PhotoKey(rows[i])])
       THEN Res(TRUE, s)
       ELSE Res(FALSE, [s EXCEPT !.hotel_photos = @ \cup Range(rows)])

\* storeFacilitiesBatch, storePoliciesBatch and storeRoomsBatch, one after the
\* other, stopping at the first error.
storeRest(s, seq, p) ==
    LET r1 == storeFacilitiesBatch(s, p.HotelID, p.Facilities)
        r2 == storePoliciesBatch(r1.s, p.HotelID, p.Policies)
        r3 == storeRoomsBatch(r2.s, seq, p.HotelID, p.Rooms, DOMAIN p.Rooms)
    IN IF r1.err \/ r2.err THEN [err |-> TRUE, s |-> s, seq |-> seq]
       ELSE [err |-> r3.err, s |-> r3.s, seq |-> r3.seq]

\* The writer has written the hotels row of its Property in a transaction
\* that is still open: it holds the lock of that row.
HoldsRow(w) == writers[w].pc \notin {"idle", "storeHotel"}

\* Mutant: the store takes no row locks.
RowLocked_Never(w) == FALSE

\* INSERT INTO hotels ... ON CONFLICT (hotel_id) DO UPDATE waits while another
\* open transaction has inserted or updated the row with that hotel_id.
RowLocked(w) ==
    \E v \in Writers \ {w} :
        HoldsRow(v) /\ writers[v].arg.HotelID = writers[w].arg.HotelID

\* Every error return runs the deferred tx.Rollback().
WriterReturnErr(w) ==
    writers' = [writers EXCEPT ![w] = [IdleWriter EXCEPT !.arg = writers[w].arg,
                                                         !.result = "err"]]

\* A statement of writer w: it fails (store error, cancelled context) or its
\* outcome r on the writer's view becomes the writer's state.
WriterStatement(w, fault, r, next) ==
    IF fault \/ r.err
    THEN WriterReturnErr(w)
    ELSE writers' = [writers EXCEPT ![w].pc = next, ![w].base = db, ![w].cur = r.s]

\* Mutant: a writer works on, and commits, its own copy of the whole store.
WriterView_WholeCopy(w) == writers[w].cur

\* What writer w reads and, at its commit, installs: the committed store with
\* the changes of w's own transaction.
WriterView(w) == View(db, writers[w].base, writers[w].cur)

\* r.db.BeginTx(ctx, nil)
WriterBegin(w, p, fault) ==
    /\ writers[w].pc = "idle"
    /\ clock < MaxCalls
    /\ clock' = clock + 1
    /\ writers' = [writers EXCEPT ![w] =
                      IF fault THEN [IdleWriter EXCEPT !.arg = p, !.result = "err"]
                      ELSE [pc |-> "storeHotel", arg |-> p, base |-> db, cur |-> db,
                            now |-> clock, result |-> "none"]]
    /\ UNCHANGED <<db, tx, roomSeq, pc, arg, result, pre, roomIDMap, op, repeated, lastCommitted,
                   syncVars, serverVars>>

WriterStoreHotel(w, fault) ==
    /\ writers[w].pc = "storeHotel"
    /\ fault \/ ~RowLocked(w)
    /\ WriterStatement(w, fault, storeHotel(WriterView(w), writers[w].arg, writers[w].now),
                       "storeAddress")
    /\ UNCHANGED <<repoVars, lastCommitted, syncVars, serverVars>>

WriterStoreAddress(w, fault) ==
    /\ writers[w].pc = "storeAddress"
    /\ WriterStatement(w, fault,
                       storeAddress(WriterView(w), writers[w].arg.HotelID, writers[w].arg.Address),
                       "storeCheckin")
    /\ UNCHANGED <<repoVars, lastCommitted, syncVars, serverVars>>

WriterStoreCheckin(w, fault) ==
    /\ writers[w].pc = "storeCheckin"
    /\ WriterStatement(w, fault,
                       storeCheckin(WriterView(w), writers[w].arg.HotelID, writers[w].arg.Checkin),
                       IF Len(writers[w].arg.Photos) = 0 THEN "storeRest" ELSE "deletePhotos")
    /\ UNCHANGED <<repoVars, lastCommitted, syncVars, serverVars>>

WriterDeletePhotos(w, fault) ==
    /\ writers[w].pc = "deletePhotos"
    /\ WriterStatement(w, fault, deletePhotos(WriterView(w), writers[w].arg.HotelID),
                       "insertPhotos")
    /\ UNCHANGED <<repoVars, lastCommitted, syncVars, serverVars>>

WriterInsertPhotos(w, fault) ==
    /\ writers[w].pc = "insertPhotos"
    /\ WriterStatement(w, fault,
                       insertPhotos(WriterView(w), writers[w].arg.HotelID, writers[w].arg.Photos),
                       "storeRest")
    /\ UNCHANGED <<repoVars, lastCommitted, syncVars, serverVars>>

WriterStoreRest(w, fault) ==
    /\ writers[w].pc = "storeRest"
    /\ LET r == storeRest(WriterView(w), roomSeq, writers[w].arg)
       IN /\ WriterStatement(w, fault, r, "commit")
          /\ roomSeq' = IF fault THEN roomSeq ELSE r.seq
    /\ UNCHANGED <<db, tx, clock, pc, arg, result, pre, roomIDMap, op, repeated, lastCommitted,
                   syncVars, serverVars>>

\* tx.Commit()
WriterCommit(w, fault) ==
    /\ writers[w].pc = "commit"
    /\ IF fault
       THEN WriterReturnErr(w) /\ UNCHANGED <<db, lastCommitted>>
       ELSE /\ db' = WriterView(w)
            /\ writers' = [writers EXCEPT ![w] = [IdleWriter EXCEPT !.arg = writers[w].arg,
                                                                 !.result = "ok"]]
            /\ lastCommitted' = [lastCommitted EXCEPT ![writers[w].arg.HotelID] = writers[w].arg]
    /\ UNCHANGED <<tx, roomSeq, clock, pc, arg, result, pre, roomIDMap, op, repeated,
                   syncVars, serverVars>>

\* Properties whose photos differ; two of them are of the same hotel.
WriterInputs ==
    {Property(1, 3, 4, 3, <<"E", "A", "E", "E", "E">>),
     Property(1, 4, 5, 4, <<"E", "B", "E", "E", "E">>),
     Property(2, 5, 5, 5, <<"E", "A", "E", "E", "E">>)}

WritersInit ==
    /\ db = SeededStore
    /\ pre = SeededStore
    /\ tx = NoTx
    /\ roomSeq = 0
    /\ clock = 0
    /\ pc = "idle"
    /\ arg = NoArg
    /\ result = "none"
    /\ roomIDMap = <<>>
    /\ repeated = FALSE
    /\ op = "none"
    /\ SyncOff
    /\ ServerOff
    /\ WritersOff

NextWriters ==
    \/ \E w \in Writers, p \in WriterInputs, fault \in BOOLEAN : WriterBegin(w, p, fault)
    \/ \E w \in Writers, fault \in BOOLEAN : WriterStoreHotel(w, fault)
    \/ \E w \in Writers, fault \in BOOLEAN : WriterStoreAddress(w, fault)
    \/ \E w \in Writers, fault \in BOOLEAN : WriterStoreCheckin(w, fault)
    \/ \E w \in Writers, fault \in BOOLEAN : WriterDeletePhotos(w, fault)
    \/ \E w \in Writers, fault \in BOOLEAN : WriterInsertPhotos(w, fault)
    \/ \E w \in Writers, fault \in BOOLEAN : WriterStoreRest(w, fault)
    \/ \E w \in Writers, fault \in BOOLEAN : WriterCommit(w, fault)

SpecWriters == WritersInit /\ [][NextWriters]_vars

\* ================================================================== store calls
\* StoreReviews and StoreTranslations called for hotels that are stored (1, 2)
\* and for a hotel id that is not (3).
TranslationInputs ==
    {<<>>,
     <<Translation("fr", "hotel_name", "nom"), Translation("fr", "description", "desc"),
       Translation("es", "hotel_name", "nombre")>>,
     <<Translation("fr", "hotel_name", "nouveau nom")>>,
     <<Translation("es", "description", "descripcion"), Translation("en", "hotel_name", "name")>>,
     <<Translation("fr", "hotel_name", "nom"), Translation("fr", "hotel_name", "autre nom")>>}

StoredHotels == {1, 2}

StoreCallsInit ==
    /\ db = SeedHotel(SeedHotel(EmptyStore, 1), 2)
    /\ pre = db
    /\ tx = NoTx
    /\ roomSeq = 0
    /\ clock = 0
    /\ pc = "idle"
    /\ arg = NoArg
    /\ result = "none"
    /\ roomIDMap = <<>>
    /\ repeated = FALSE
    /\ op = "none"
    /\ SyncOff
    /\ ServerOff
    /\ WritersOff

NextStoreCalls ==
    \/ \E id \in HotelIds, reviews \in ReviewInputs, fault \in BOOLEAN :
          StoreReviewsCall(id, reviews, fault) /\ UNCHANGED <<syncVars, serverVars, writerVars>>
    \/ \E id \in HotelIds, translations \in TranslationInputs, fault \in BOOLEAN :
          StoreTranslationsCall(id, translations, fault)
          /\ UNCHANGED <<syncVars, serverVars, writerVars>>

SpecStoreCalls == StoreCallsInit /\ [][NextStoreCalls]_vars

\* ================================================================== hotel lookup
ErrHotelNotFound == "hotel not found"

\* Mutant: a missing row is returned as the store's own error.
GetHotelByID_PassesNoRows(s, id, fault) ==
    IF fault THEN [hotel |-> NoArg, err |-> "db error"]
    ELSE IF \A r \in s.hotels : r.hotel_id # id
    THEN [hotel |-> NoArg, err |-> "sql: no rows in result set"]
    ELSE LET row == CHOOSE r \in s.hotels : r.hotel_id = id
         IN [hotel |-> [HotelID |-> row.hotel_id, CupidID |-> row.cupid_id,
                        HotelName |-> row.hotel_name, Rating |-> row.rating,
                        ReviewCount |-> row.review_count],
             err |-> "none"]

\* SELECT ... FROM hotels WHERE hotel_id = $1: sql.ErrNoRows becomes
\* ErrHotelNotFound, any other error (fault) is returned as it is.
GetHotelByID(s, id, fault) ==
    IF fault THEN [hotel |-> NoArg, err |-> "db error"]
    ELSE IF \A r \in s.hotels : r.hotel_id # id
    THEN [hotel |-> NoArg, err |-> ErrHotelNotFound]
    ELSE LET row == CHOOSE r \in s.hotels : r.hotel_id = id
         IN [hotel |-> [HotelID |-> row.hotel_id, CupidID |-> row.cupid_id,
                        HotelName |-> row.hotel_name, Rating |-> row.rating,
                        ReviewCount |-> row.review_count],
             err |-> "none"]

\* GET /api/v1/hotels/{hotelID}
getHotelHandler(id, fault) ==
    LET r == GetHotelByID(db, id, fault)
    IN /\ resp' = CASE r.err = "none"           -> [status |-> 200, hotel |-> r.hotel]
                    [] r.err = ErrHotelNotFound -> [status |-> 404, hotel |-> NoArg]
                    [] OTHER                    -> [status |-> 500, hotel |-> NoArg]
       /\ trace' = <<[op |-> "GetHotelByID", id |-> id, fault |-> fault,
                      absent |-> id \notin {x.hotel_id : x \in db.hotels},
                      hotel |-> r.hotel, err |-> r.err]>>
       /\ UNCHANGED <<repoVars, syncVars, writerVars, cache, rdb, time, got, sets>>

\* Hotels are stored by StoreProperty and looked up at any time.
NextLookup ==
    \/ \E p \in ReviewHotelInputs, fault \in BOOLEAN :
          BeginStoreProperty(p, fault) /\ UNCHANGED <<syncVars, serverVars, writerVars>>
    \/ StorePropertyBody
    \/ \E id \in HotelIds, fault \in BOOLEAN : getHotelHandler(id, fault) /\ UNCHANGED req

SpecLookup == Init /\ [][NextLookup]_vars

\* ================================================================== client
\* Responses of the external API: status codes at and around the bounds of
\* the classes, with and without a request id.
ClientStatuses ==
    {100, 101, 199, 200, 201, 204, 299, 300, 301, 302, 399,
     400, 401, 404, 499, 500, 501, 503, 599, 600, 700}
ClientRequestIDs == {"", "req-123", "req-456"}
ClientBodies == {BodyEmpty, BodyJSON(<<>>)}

ClientResponses ==
    {TransportError}
    \cup {ResponseWithID(status, b, id) :
            status \in ClientStatuses, b \in ClientBodies, id \in ClientRequestIDs}

\* A caller calls Client.Do and the API answers with `response`.
ClientDo(response) ==
    /\ resp' = Do(response)
    /\ trace' = <<[op |-> "Do", response |-> response]>>
    /\ UNCHANGED <<repoVars, syncVars, writerVars, cache, rdb, time, got, sets, req>>

NextClient == \E response \in ClientResponses : ClientDo(response)

SpecClient == Init /\ [][NextClient]_vars

\* ================================================================== re-run
\* A sync that is run again: StoreProperty and StoreReviews calls, any of
\* which may repeat the call before it.
NextRerun ==
    \/ Next
    \/ \E h \in StoredHotels, reviews \in ReviewInputs, fault \in BOOLEAN :
          StoreReviewsCall(h, reviews, fault) /\ UNCHANGED <<syncVars, serverVars, writerVars>>

SpecRerun == Init /\ [][NextRerun]_vars

\* ================================================================== requests
\* A path value, as the sequence of its characters.
DigitChars == <<"0", "1", "2", "3", "4", "5", "6", "7", "8", "9">>

\* The number a sequence of digits spells, read from the left.
RECURSIVE DigitsValue(_, _, _)
DigitsValue(digits, i, acc) ==
    IF i > Len(digits) THEN acc
    ELSE DigitsValue(digits, i + 1,
             10 * acc + (CHOOSE d \in 0..9 : DigitChars[d + 1] = digits[i]))

\* Mutant: the characters that are no digits are passed over and no path value
\* fails; a value that names no hotel becomes 1.
Atoi_NeverFails(str) ==
    LET v == DigitsValue(SelectSeq(str, LAMBDA c : c \in Range(DigitChars)), 1, 0)
    IN [err |-> FALSE, value |-> IF v \in HotelIds THEN v ELSE 1]

\* strconv.Atoi: an optional sign and at least one decimal digit, nothing
\* else (values beyond the int range are not among the inputs here).
Atoi(str) ==
    LET signed == str # <<>> /\ str[1] \in {"+", "-"}
        digits == IF signed THEN Tail(str) ELSE str
    IN IF digits = <<>> \/ \E i \in DOMAIN digits : digits[i] \notin Range(DigitChars)
       THEN [err |-> TRUE, value |-> 0]
       ELSE [err |-> FALSE,
             value |-> IF signed /\ str[1] = "-"
                       THEN 0 - DigitsValue(digits, 1, 0)
                       ELSE DigitsValue(digits, 1, 0)]

\* hotelIDStr == "" and strconv.Atoi(hotelIDStr) of the three handlers.
ParseHotelID(hotelIDStr) ==
    IF hotelIDStr = <<>> THEN [err |-> TRUE, value |-> 0] ELSE Atoi(hotelIDStr)

\* validLanguages of getHotelTranslationsHandler.
validLanguages == {"fr", "es", "en"}

\* http.Error(w, ..., http.StatusBadRequest) and return: no repository and no
\* cache call has been made.
BadRequest ==
    /\ resp' = [status |-> 400]
    /\ trace' = <<>>
    /\ UNCHANGED <<repoVars, syncVars, writerVars, cache, rdb, time, got, sets>>

Request(route, hotelIDStr, language) ==
    [route |-> route, hotelID |-> hotelIDStr, language |-> language]

\* GET /api/v1/hotels/{hotelID}, from the path value on.
ServeHotel(hotelIDStr, fault) ==
    /\ req' = Request("hotel", hotelIDStr, "")
    /\ LET id == ParseHotelID(hotelIDStr)
       IN IF id.err THEN BadRequest ELSE getHotelHandler(id.value, fault)

\* GET /api/v1/hotels/{hotelID}/reviews, from the path value on.
ServeReviews(hotelIDStr, getFault, lookupFault, nilRows, setFault) ==
    /\ req' = Request("reviews", hotelIDStr, "")
    /\ LET id == ParseHotelID(hotelIDStr)
       IN IF id.err
          THEN cache # "none" /\ BadRequest
          ELSE getHotelReviewsHandler(id.value, getFault, lookupFault, nilRows, setFault)

\* GET /api/v1/hotels/{hotelID}/translations/{language}
getHotelTranslationsHandler(hotelIDStr, languageCode, fault) ==
    /\ req' = Request("translations", hotelIDStr, languageCode)
    /\ LET id == ParseHotelID(hotelIDStr)
       IN IF id.err \/ languageCode = "" \/ languageCode \notin validLanguages
          THEN BadRequest
          ELSE /\ resp' = IF fault THEN ErrorResponse
                          ELSE [status |-> 200, hotel_id |-> id.value,
                                language |-> languageCode,
                                translations |->
                                    GetHotelTranslations(db, id.value, languageCode)]
               /\ trace' = <<[op |-> "GetHotelTranslations", id |-> id.value,
                              language |-> languageCode]>>
               /\ UNCHANGED <<repoVars, syncVars, writerVars, cache, rdb, time, got, sets>>

\* Path values of requests: numbers in several spellings and texts that are
\* no number.
PathHotelIDs ==
    {<<>>, <<"1">>, <<"2">>, <<"0", "2">>, <<"+", "3">>,
     <<"a", "b", "c">>, <<"1", "a">>, <<"-">>, <<"1", ".", "5">>, <<" ", "1">>}
PathLanguages == {"", "fr", "es", "en", "de", "FR"}

NextRequests ==
    \/ \E hotelIDStr \in PathHotelIDs, fault \in BOOLEAN : ServeHotel(hotelIDStr, fault)
    \/ \E hotelIDStr \in PathHotelIDs, getFault \in BOOLEAN, lookupFault \in BOOLEAN,
          nilRows \in BOOLEAN, setFault \in BOOLEAN :
          ServeReviews(hotelIDStr, getFault, lookupFault, nilRows, setFault)
    \/ \E hotelIDStr \in PathHotelIDs, languageCode \in PathLanguages, fault \in BOOLEAN :
          getHotelTranslationsHandler(hotelIDStr, languageCode, fault)

SpecRequests == ServerInit /\ [][NextRequests]_vars

\* ================================================================== distinct hotels
\* One Property per hotel; hotels 1 and 3 share a photo URL and an external
\* room id.
DistinctInputs ==
    {Property(1, 4, 5, 4, <<"A", "A", "A", "A", "A">>),
     Property(2, 5, 5, 5, <<"B", "B", "B", "B", "B">>),
     Property(3, 3, 4, 3, <<"B", "A", "B", "A", "A">>)}

\* Concurrent StoreProperty calls on a store and contexts that do not fail.
NextDistinct ==
    \/ \E w \in Writers, p \in DistinctInputs : WriterBegin(w, p, FALSE)
    \/ \E w \in Writers : WriterStoreHotel(w, FALSE)
    \/ \E w \in Writers : WriterStoreAddress(w, FALSE)
    \/ \E w \in Writers : WriterStoreCheckin(w, FALSE)
    \/ \E w \in Writers : WriterDeletePhotos(w, FALSE)
    \/ \E w \in Writers : WriterInsertPhotos(w, FALSE)
    \/ \E w \in Writers : WriterStoreRest(w, FALSE)
    \/ \E w \in Writers : WriterCommit(w, FALSE)

SpecDistinct == WritersInit /\ [][NextDistinct]_vars

\* ================================================================== read back

\* Ratings as the API delivers them (float64, here in thousandths): 8.3, 8.125
\* and 9.996, under the names of the stored hotel and of a later version.
Rated(p, rating, name) == [p EXCEPT !.Rating = rating, !.HotelName = <<name, 0>>]

ReadBackInputs ==
    {Rated(Property(1, 4, 5, 4, <<"A", "A", "A", "A", "A">>), 8300, "The Z Hotel Covent Garden"),
     Rated(Property(1, 3, 4, 3, <<"A", "A", "A", "A", "A">>), 8125, "The Z Hotel"),
     Rated(Property(1, 3, 4, 3, <<"A", "A", "A", "A", "A">>), 9996, "The Z Hotel"),
     Rated(Property(2, 5, 5, 5, <<"A", "A", "A", "A", "A">>), 7450, "Hotel Two")}

NextReadBack ==
    \/ \E p \in ReadBackInputs, fault \in BOOLEAN :
          BeginStoreProperty(p, fault) /\ UNCHANGED <<syncVars, serverVars, writerVars>>
    \/ StorePropertyBody
    \/ \E id \in HotelIds, fault \in BOOLEAN : getHotelHandler(id, fault) /\ UNCHANGED req

SpecReadBack == Init /\ [][NextReadBack]_vars

\* ================================================================== other rows
\* StoreProperty calls on a store that also receives reviews and translations.
\* The store and the room sequence after StoreProperty(p) has committed on
\* store s: the statements of the call in their order, none failing.
AfterStoreProperty(s, seq, p) ==
    LET s1 == storeHotel(s, p, 0).s
        s2 == storeAddress(s1, p.HotelID, p.Address).s
        s3 == storeCheckin(s2, p.HotelID, p.Checkin).s
        s4 == storePhotosBatch(s3, p.HotelID, p.Photos).s
        s5 == storeFacilitiesBatch(s4, p.HotelID, p.Facilities).s
        s6 == storePoliciesBatch(s5, p.HotelID, p.Policies).s
    IN storeRoomsBatch(s6, seq, p.HotelID, p.Rooms, AllRows(p.Rooms))

\* Hotel 2 is stored with its rooms, a review and a translation.
FrameInit ==
    LET r  == AfterStoreProperty(EmptyStore, 0, Property(2, 5, 5, 5, <<"A", "A", "A", "A", "A">>))
        s1 == StoreReviews(r.s, 2, <<ReviewC>>).s
        s2 == StoreTranslations(s1, 2, <<Translation("es", "hotel_name", "nombre")>>).s
    IN /\ db = s2
       /\ pre = db
       /\ tx = NoTx
       /\ roomSeq = r.seq
       /\ clock = 0
       /\ pc = "idle"
       /\ arg = NoArg
       /\ result = "none"
       /\ roomIDMap = <<>>
       /\ repeated = FALSE
       /\ op = "none"
       /\ SyncOff
       /\ ServerOff
       /\ WritersOff

NextFrame ==
    \/ Next
    \/ \E h \in StoredHotels, reviews \in {<<ReviewA, ReviewB>>, <<ReviewC>>} :
          StoreReviewsCall(h, reviews, FALSE) /\ UNCHANGED <<syncVars, serverVars, writerVars>>
    \/ \E h \in StoredHotels :
          StoreTranslationsCall(h, <<Translation("fr", "hotel_name", "nom")>>, FALSE)
          /\ UNCHANGED <<syncVars, serverVars, writerVars>>

SpecFrame == FrameInit /\ [][NextFrame]_vars

\* ================================================================== stale reads
\* Reviews reads served next to StoreReviews calls. Each request runs in its
\* own goroutine: a StoreReviews can commit between a handler's lookup and its
\* SetReviews. req follows one such read and the time of the last response.
NoRead == [phase |-> "none", id |-> 0, found |-> NilSlice, lookup |-> 0, set |-> 0, read |-> 0]

StaleInit ==
    /\ db = SeededStore
    /\ pre = SeededStore
    /\ tx = NoTx
    /\ roomSeq = 0
    /\ clock = 0
    /\ pc = "idle"
    /\ arg = NoArg
    /\ result = "none"
    /\ roomIDMap = <<>>
    /\ repeated = FALSE
    /\ op = "none"
    /\ SyncOff
    /\ cache = NewServerCache(FALSE)
    /\ rdb = [h \in HotelIds |-> NoKey]
    /\ time = 0
    /\ resp = NoResult
    /\ trace = <<>>
    /\ got = NoResult
    /\ sets = [h \in HotelIds |-> NoResult]
    /\ req = NoRead
    /\ WritersOff

\* getHotelReviewsHandler up to the return of s.repository.GetHotelReviews:
\* GetReviews missed and the store was read.
ReviewsLookup(id, nilRows) ==
    LET rows  == GetHotelReviews(db, id)
        found == IF rows = <<>> /\ nilRows THEN NilSlice ELSE Slice(rows)
    IN /\ cache = Connected
       /\ req.phase # "lookup"
       /\ ~CacheHit(GetReviews(rdb, time, id, FALSE))
       /\ req' = [req EXCEPT !.phase = "lookup", !.id = id, !.found = found,
                             !.lookup = clock]
       /\ UNCHANGED <<repoVars, syncVars, writerVars, cache, rdb, time, resp, trace, got, sets>>

\* The rest of that handler: SetReviews of the list it looked up, and the
\* response.
ReviewsAnswer ==
    LET s == SetReviews(rdb, time, req.id, req.found, ReviewsTTL, FALSE)
    IN /\ req.phase = "lookup"
       /\ resp' = AfterSet(OKResponse(req.id, req.found, FALSE), s.err)
       /\ trace' = <<Called("GetReviews", NilSlice, "none", 0),
                     Called("GetHotelReviews", req.found, "none", 0),
                     Called("SetReviews", req.found, s.err, ReviewsTTL)>>
       /\ rdb' = s.keys
       /\ sets' = [sets EXCEPT ![req.id] = LastSet(req.found, time, ReviewsTTL)]
       /\ req' = [req EXCEPT !.phase = "done", !.set = clock, !.read = clock]
       /\ UNCHANGED <<repoVars, syncVars, writerVars, cache, time, got>>

StaleHotels == {1}

NextStale ==
    \/ \E id \in StaleHotels, nilRows \in BOOLEAN :
          getHotelReviewsHandler(id, FALSE, FALSE, nilRows, FALSE)
          /\ req' = [req EXCEPT !.read = clock]
    \/ \E id \in StaleHotels, nilRows \in BOOLEAN : ReviewsLookup(id, nilRows)
    \/ ReviewsAnswer
    \/ \E reviews \in ServerReviews, fault \in BOOLEAN :
          StoreReviewsCall(1, reviews, fault) /\ UNCHANGED <<syncVars, serverVars, writerVars>>
    \/ TTLElapses

SpecStale == StaleInit /\ [][NextStale]_vars

\* ================================================================== reviews re-sync
\* A batch run of data-sync -e reviews on a store that holds reviews of hotels
\* 1 and 2 from an earlier run.
ResyncInit ==
    LET s1 == StoreReviews(SeededStore, 1, <<ReviewC>>).s
        s2 == StoreReviews(s1, 2, <<ReviewA, ReviewB>>).s
    IN /\ db = s2
       /\ pre = db
       /\ tx = NoTx
       /\ roomSeq = 0
       /\ clock = 0
       /\ pc = "idle"
       /\ arg = NoArg
       /\ result = "none"
       /\ roomIDMap = <<>>
       /\ repeated = FALSE
       /\ op = "none"
       /\ et = ReviewsEndpoint
       /\ idx = 1
       /\ successCount = 0
       /\ unit = "idle"
       /\ body = NoBody
       /\ lang = 0
       /\ allTranslations = <<>>
       /\ fetched = "none"
       /\ stored = "none"
       /\ log = <<>>
       /\ fetches = <<>>
       /\ calls = 0
       /\ before = db
       /\ sinceFetch = -1
       /\ ServerOff
       /\ WritersOff

NextResync ==
    \/ \E fault \in BOOLEAN : SyncHotel(fault)
    \/ SyncFetch
    \/ \E fault \in BOOLEAN : SyncParseReviews(fault)
    \/ SyncStoreReturn
    \/ SyncNext

SpecResync == ResyncInit /\ [][NextResync]_vars

\* ================================================================== duplicates
\* StoreProperty calls whose input repeats a photo URL, a facility id, a
\* policy id or an external room id, next to calls whose input does not.
DuplicateInputs ==
    {Property(1, 3, 4, 3, <<"A", "A", "A", "A", "A">>),
     Property(1, 4, 5, 4, <<"B", "B", "B", "B", "B">>),
     Property(1, 4, 5, 4, <<"A", "D", "A", "A", "A">>),
     Property(1, 4, 5, 4, <<"A", "B", "D", "A", "B">>),
     Property(1, 4, 5, 4, <<"A", "B", "B", "D", "B">>),
     Property(1, 4, 5, 4, <<"A", "B", "B", "B", "D">>),
     Property(2, 5, 5, 5, <<"A", "A", "A", "A", "A">>)}

NextDuplicates ==
    \/ \E p \in DuplicateInputs, fault \in BOOLEAN :
          BeginStoreProperty(p, fault) /\ UNCHANGED <<syncVars, serverVars, writerVars>>
    \/ StorePropertyBody

SpecDuplicates == Init /\ [][NextDuplicates]_vars

\* ================================================================== properties
Finished == pc = "idle" /\ result = "ok" /\ op = "StoreProperty"
Updated   == Finished /\ \E r \in pre.hotels : r.hotel_id = arg.HotelID

PhotosIn(s, h)     == {r \in s.hotel_photos : r.hotel_id = h}
FacilitiesIn(s, h) == {r \in s.hotel_facilities : r.hotel_id = h}
PoliciesIn(s, h)   == {r \in s.hotel_policies : r.hotel_id = h}
RoomsIn(s, h)      == {r \in s.hotel_rooms : r.hotel_id = h}
InstructionsIn(s, h) ==
    IF s.hotel_checkins[h] = NoRow THEN {}
    ELSE {r \in s.hotel_checkin_instructions : r.hotel_checkin_id = s.hotel_checkins[h].id}

\* C1: StoreProperty is all-or-nothing.  While a call is in flight, and after
\* a call that returned an error, the committed store is exactly the store as
\* it was when the call began; the store only ever changes by a commit that
\* installs the complete working copy.
C1_AllOrNothing ==
    /\ (pc # "idle" \/ result = "err") => db = pre
    /\ (pc = "idle") => tx = NoTx

\* A call has failed on a duplicate room after it had rewritten the hotel row
\* and the child collections in its transaction.
C1_Witness ==
    /\ pc = "idle" /\ result = "err" /\ op = "StoreProperty"
    /\ HasDup([i \in DOMAIN arg.Rooms |-> arg.Rooms[i].ID])
    /\ \E r \in db.hotels : r.hotel_id = arg.HotelID /\ r.rating # arg.Rating
    /\ PhotosIn(db, arg.HotelID) # {PhotoRow(arg.HotelID, x) : x \in Range(arg.Photos)}

\* C2: after a successful StoreProperty with a non-empty Photos (Facilities,
\* Policies) list the stored rows of that collection for the hotel are exactly
\* the rows of the input list.
C2_ReplaceNonEmpty ==
    Finished =>
        /\ arg.Photos # <<>> =>
             PhotosIn(db, arg.HotelID) = {PhotoRow(arg.HotelID, x) : x \in Range(arg.Photos)}
        /\ arg.Facilities # <<>> =>
             FacilitiesIn(db, arg.HotelID)
                 = {FacilityRow(arg.HotelID, x) : x \in Range(arg.Facilities)}
        /\ arg.Policies # <<>> =>
             PoliciesIn(db, arg.HotelID) = {PolicyRow(arg.HotelID, x) : x \in Range(arg.Policies)}

\* A successful call replaced three non-empty stored collections by other rows.
C2_Witness ==
    /\ Finished
    /\ arg.Photos # <<>> /\ arg.Facilities # <<>> /\ arg.Policies # <<>>
    /\ PhotosIn(pre, arg.HotelID) # {} /\ PhotosIn(pre, arg.HotelID) # PhotosIn(db, arg.HotelID)
    /\ FacilitiesIn(pre, arg.HotelID) # {}
    /\ FacilitiesIn(pre, arg.HotelID) # FacilitiesIn(db, arg.HotelID)
    /\ PoliciesIn(pre, arg.HotelID) # {}
    /\ PoliciesIn(pre, arg.HotelID) # PoliciesIn(db, arg.HotelID)

\* The Room rows of hotel h without their generated ids.
RoomContent(s, h) ==
    {[cupid_room_id |-> r.cupid_room_id, room_name |-> r.room_name] : r \in RoomsIn(s, h)}
InputRoomContent(rooms) ==
    {[cupid_room_id |-> x.ID, room_name |-> x.RoomName] : x \in Range(rooms)}

\* C3 as stated: after every successful StoreProperty, for any input Room
\* list, the stored Room rows of the hotel are exactly the input rooms, one row
\* per input room.
C3_Original ==
    Finished =>
        /\ RoomContent(db, arg.HotelID) = InputRoomContent(arg.Rooms)
        /\ Cardinality(RoomsIn(db, arg.HotelID)) = Len(arg.Rooms)

\* C3 (amended): after a successful StoreProperty with a NON-EMPTY input Room
\* list the stored Room rows of the hotel are exactly the input rooms, one row
\* per input room, and no Room row of an earlier sync survives; an empty Room
\* list leaves the stored Room rows untouched.
C3_ReplaceRooms ==
    Finished =>
        /\ arg.Rooms # <<>> =>
             /\ RoomContent(db, arg.HotelID) = InputRoomContent(arg.Rooms)
             /\ Cardinality(RoomsIn(db, arg.HotelID)) = Len(arg.Rooms)
             /\ RoomsIn(db, arg.HotelID) \cap RoomsIn(pre, arg.HotelID) = {}
        /\ arg.Rooms = <<>> => RoomsIn(db, arg.HotelID) = RoomsIn(pre, arg.HotelID)

\* A successful call with rooms replaced earlier, different rooms of the hotel.
C3_Witness ==
    /\ Finished
    /\ arg.Rooms # <<>>
    /\ RoomsIn(pre, arg.HotelID) # {}
    /\ RoomContent(pre, arg.HotelID) # RoomContent(db, arg.HotelID)

\* The room row that holds the input room with external id c of hotel h.
RoomRowOf(s, h, c) == CHOOSE r \in RoomsIn(s, h) : r.cupid_room_id = c

\* C4: for every input Room of a successful call, the BedType, RoomAmenity and
\* Photo rows attached to the internal id of the Room row with that external
\* id are exactly that input Room's children, and no child row of the hotel's
\* rooms hangs off any other id.
C4_ChildRemapping ==
    (Finished /\ arg.Rooms # <<>>) =>
        /\ \A i \in DOMAIN arg.Rooms :
             /\ \E r \in RoomsIn(db, arg.HotelID) : r.cupid_room_id = arg.Rooms[i].ID
             /\ LET id == RoomRowOf(db, arg.HotelID, arg.Rooms[i].ID).id
                IN /\ {r \in db.room_bed_types : r.room_id = id}
                        = {BedTypeRow(id, x) : x \in Range(arg.Rooms[i].BedTypes)}
                   /\ {r \in db.room_amenities : r.room_id = id}
                        = {RoomAmenityRow(id, x) : x \in Range(arg.Rooms[i].RoomAmenities)}
                   /\ {r \in db.room_photos : r.room_id = id}
                        = {RoomPhotoRow(id, x) : x \in Range(arg.Rooms[i].Photos)}
        /\ \A r \in db.room_bed_types \cup db.room_amenities \cup db.room_photos :
             r.room_id \in {x.id : x \in db.hotel_rooms}

\* A successful call stored two rooms with different bed types.
C4_Witness ==
    /\ Finished
    /\ Len(arg.Rooms) = 2
    /\ arg.Rooms[1].BedTypes # <<>> /\ arg.Rooms[2].BedTypes # <<>>
    /\ arg.Rooms[1].BedTypes # arg.Rooms[2].BedTypes
    /\ Cardinality(db.room_bed_types) >= 3

HotelRowsIn(s, h) == {r \in s.hotels : r.hotel_id = h}

\* C6: storing a Property whose hotel id is already stored leaves exactly one
\* row for that id, holding the new rating, with the creation timestamp of the
\* old row and an update timestamp refreshed to the time of this call.
C6_IdempotentUpsert ==
    Updated =>
        /\ Cardinality(HotelRowsIn(db, arg.HotelID)) = 1
        /\ \A new \in HotelRowsIn(db, arg.HotelID) : \A old \in HotelRowsIn(pre, arg.HotelID) :
             /\ new.rating = arg.Rating
             /\ new.created_at = old.created_at
             /\ new.updated_at = clock
             /\ new.updated_at > old.updated_at

\* A stored hotel was stored again, successfully, with another rating.
C6_Witness ==
    /\ Updated
    /\ \E old \in HotelRowsIn(pre, arg.HotelID) : old.rating # arg.Rating

\* C7: a successful StoreProperty with an empty Photos (Facilities, Policies)
\* list leaves the rows of that collection stored for the hotel unchanged.
C7_EmptyIsNoOp ==
    Finished =>
        /\ arg.Photos = <<>> => PhotosIn(db, arg.HotelID) = PhotosIn(pre, arg.HotelID)
        /\ arg.Facilities = <<>> =>
             FacilitiesIn(db, arg.HotelID) = FacilitiesIn(pre, arg.HotelID)
        /\ arg.Policies = <<>> => PoliciesIn(db, arg.HotelID) = PoliciesIn(pre, arg.HotelID)

\* A successful call with three empty lists on a hotel that has stored rows in
\* all three collections.
C7_Witness ==
    /\ Finished
    /\ arg.Photos = <<>> /\ arg.Facilities = <<>> /\ arg.Policies = <<>>
    /\ PhotosIn(db, arg.HotelID) # {}
    /\ FacilitiesIn(db, arg.HotelID) # {}
    /\ PoliciesIn(db, arg.HotelID) # {}

\* C8 as stated: a successful StoreProperty with an empty Instructions list
\* leaves the Instructions stored for the hotel's Checkin unchanged.
C8_Original ==
    (Finished /\ arg.Checkin.Instructions = <<>>) =>
        InstructionsIn(db, arg.HotelID) = InstructionsIn(pre, arg.HotelID)

\* C8 (amended): a successful StoreProperty with an empty Instructions list
\* still runs the delete: the Instructions previously stored for the hotel's
\* Checkin are all removed and none is inserted.
C8_InstructionsCleared ==
    (Finished /\ arg.Checkin.Instructions = <<>>) => InstructionsIn(db, arg.HotelID) = {}

\* A successful call with no instructions on a hotel that had some stored.
C8_Witness ==
    /\ Finished
    /\ arg.Checkin.Instructions = <<>>
    /\ InstructionsIn(pre, arg.HotelID) # {}

\* An input Room of the last call has no entry in the call's roomIDMap.
MissingMapEntry ==
    \E i \in DOMAIN arg.Rooms : arg.Rooms[i].ID \notin DOMAIN roomIDMap

\* C5 as stated: a StoreProperty call in which an input Room's external id
\* has no entry in the external-to-internal id mapping never returns success:
\* it returns an error (and is rolled back).
C5_Original ==
    (pc = "idle" /\ op = "StoreProperty" /\ arg.Rooms # <<>> /\ MissingMapEntry) => result = "err"


\* C9: from a successful StoreReviews(hotel, R2) on, a review lookup for the
\* hotel returns exactly R2, whatever reviews R1 an earlier StoreReviews had
\* stored for it: no review of R1 survives and an empty R2 leaves none.
C9_ReplaceReviews ==
    (pc = "idle" /\ op = "StoreReviews" /\ result = "ok")
        => GetHotelReviews(db, arg.HotelID) = arg.Reviews

\* StoreReviews has succeeded for a hotel that had other reviews stored.
C9_Witness ==
    /\ pc = "idle" /\ op = "StoreReviews" /\ result = "ok"
    /\ GetHotelReviews(pre, arg.HotelID) # <<>>
    /\ GetHotelReviews(pre, arg.HotelID) # arg.Reviews
    /\ GetHotelReviews(db, arg.HotelID) = arg.Reviews

\* The batch loop has gone through the whole list.
BatchDone == et # "none" /\ idx = Len(allHotelIDs) + 1

\* Hotels 1 and 3 were fetched with their data and met no store failure;
\* every fetch of hotel 2 returned a 500.
OnlyBFails ==
    /\ log[1].fetched = "ok" /\ log[1].stored # "err"
    /\ log[2].fetched = "500"
    /\ log[3].fetched = "ok" /\ log[3].stored # "err"

\* The store holds what the external API has for the hotel.
Persisted(h) ==
    CASE et = ContentEndpoint ->
            /\ \E r \in db.hotels : r.hotel_id = h /\ r.rating = FetchedProperty(h).Rating
            /\ PhotosIn(db, h) = {PhotoRow(h, x) : x \in Range(FetchedProperty(h).Photos)}
            /\ RoomContent(db, h) = InputRoomContent(FetchedProperty(h).Rooms)
      [] et = ReviewsEndpoint ->
            GetHotelReviews(db, h) = FetchedReviews(h)
      [] et = TranslationsEndpoint ->
            \A i \in DOMAIN languages :
                GetHotelTranslations(db, h, languages[i]) =
                    {[t EXCEPT !.LanguageCode = languages[i]] :
                        t \in Range(FetchedTranslations(h, languages[i]))}

\* C10: in a batch over three hotels, of any data kind, where only the second
\* hotel's fetch returns a 500, the batch reports 2 successes and 1 failure
\* and the first and third hotel are persisted.
C10_Original ==
    (BatchDone /\ OnlyBFails) =>
        /\ successCount = 2
        /\ Len(allHotelIDs) - successCount = 1
        /\ Persisted(1)
        /\ Persisted(3)

\* The sync of the current hotel has ended.
UnitEnded == et # "none" /\ unit \in {"done", "failed"}

\* A fetch of the unit was classified 2xx and its body parsed.
FetchedAndParsed ==
    \E k \in DOMAIN fetches :
        /\ fetches[k].do = "none"
        /\ fetches[k].status >= 200 /\ fetches[k].status < 300
        /\ fetches[k].parse = "ok"

\* C11: a unit of work ends in done exactly when its fetch was classified 2xx,
\* the body parsed and the matching repository operation called and committed;
\* in every other case it ends in failed.
C11_Original ==
    UnitEnded => (unit = "done" <=> (FetchedAndParsed /\ calls = 1 /\ stored = "ok"))

\* The fetch of a content or reviews unit failed in transport, was classified
\* non-2xx, or its body failed to parse.
FetchOrParseFailed ==
    /\ et \in {ContentEndpoint, ReviewsEndpoint}
    /\ fetches # <<>>
    /\ \/ fetches[1].do \in {"transport", "Error", "unexpected"}
       \/ fetches[1].parse = "err"

\* C12: a content or reviews unit whose fetch fails in transport or is
\* classified non-2xx, or whose body fails to parse, ends in failed without a
\* repository call, the store being what it was when the unit began.
C12_AbortsUntouched ==
    (UnitEnded /\ FetchOrParseFailed) =>
        /\ unit = "failed"
        /\ calls = 0
        /\ stored = "none"
        /\ db = before

\* A unit has failed on a body that does not parse, after an earlier unit of
\* the batch had stored its hotel.
C12_Witness ==
    /\ UnitEnded /\ FetchOrParseFailed
    /\ fetches[1].parse = "err"
    /\ Len(log) >= 1 /\ log[1].stored = "ok"
    /\ db # EmptyStore

\* What the fetches 1..k of a translations unit that parsed hold, stamped with
\* their language, in the order of the fetches.
RECURSIVE SuccessfulTranslations(_)
SuccessfulTranslations(k) ==
    IF k = 0 THEN <<>>
    ELSE SuccessfulTranslations(k - 1) \o
         (IF fetches[k].parse = "ok"
          THEN [i \in DOMAIN FetchedTranslations(hotelID, fetches[k].lang) |->
                  [FetchedTranslations(hotelID, fetches[k].lang)[i]
                      EXCEPT !.LanguageCode = fetches[k].lang]]
          ELSE <<>>)

\* C13: a translations unit that began fetching has fetched every language
\* of the fixed list, in order, whatever failed on the way, and has made at
\* most one StoreTranslations call, whose argument holds the translations of
\* all the languages that were fetched and parsed; it makes no call when no
\* language gave a translation.
C13_AllLanguagesOneCall ==
    /\ (et = TranslationsEndpoint) => calls <= 1
    /\ (et = TranslationsEndpoint /\ UnitEnded /\ fetches # <<>>) =>
          /\ Len(fetches) = Len(languages)
          /\ \A k \in DOMAIN fetches : fetches[k].lang = languages[k]
          /\ calls = 1 <=> SuccessfulTranslations(Len(fetches)) # <<>>
          /\ calls = 1 =>
                /\ op = "StoreTranslations"
                /\ arg.HotelID = hotelID
                /\ arg.Translations = SuccessfulTranslations(Len(fetches))

\* A unit has stored the translations of two languages after the fetch of
\* the first language had failed.
C13_Witness ==
    /\ et = TranslationsEndpoint /\ UnitEnded
    /\ Len(fetches) = 3
    /\ fetches[1].do = "Error"
    /\ fetches[2].parse = "ok"
    /\ fetches[3].parse = "ok"
    /\ calls = 1 /\ stored = "ok"
    /\ Len(arg.Translations) = 2

\* C14: the batch goes through the list in order, one hotel at a time: the
\* hotels it is done with are the first idx - 1 ids of the list, each once,
\* failed or not, the hotel in progress is not among them, and at the end of
\* the batch every id of the list has been attempted.
C14_SequentialOnce ==
    (et # "none") =>
        /\ idx \in 1..(Len(allHotelIDs) + 1)
        /\ Len(log) = idx - 1
        /\ \A i \in DOMAIN log : log[i].hotel = allHotelIDs[i]
        /\ (unit # "idle") =>
              /\ idx \in DOMAIN allHotelIDs
              /\ \A i \in DOMAIN log : log[i].hotel # hotelID
        /\ BatchDone => Len(log) = Len(allHotelIDs)

\* The batch has ended after its first hotel had failed and its second
\* hotel had succeeded.
C14_Witness ==
    /\ BatchDone
    /\ log[1].err
    /\ ~log[2].err
    /\ log[3].err

\* ------------------------------------------------------------------ reviews read
\* A reviews read has been handled.
Served == resp # NoResult

\* The handler's calls of one operation.
CallsOf(name) == {i \in DOMAIN trace : trace[i].op = name}

\* The read began with a GetReviews that returned a list and no error.
CacheWasHit ==
    /\ Served /\ trace # <<>> /\ trace[1].op = "GetReviews"
    /\ trace[1].err = "none" /\ ~trace[1].reviews.nil

\* The read began with a GetReviews that returned no list, or an error.
CacheMissed ==
    /\ Served /\ trace # <<>> /\ trace[1].op = "GetReviews"
    /\ trace[1].err # "panic"
    /\ (trace[1].err # "none" \/ trace[1].reviews.nil)

\* C15: on a cache hit the handler returns the cached list with
\* from_cache = true, and makes no repository lookup and no cache Set.
C15_CacheHit ==
    CacheWasHit =>
        /\ resp # Panicked
        /\ resp.status = 200
        /\ resp.reviews = Marshal(trace[1].reviews)
        /\ resp.count = Len(trace[1].reviews.items)
        /\ resp.from_cache
        /\ CallsOf("GetHotelReviews") = {}
        /\ CallsOf("SetReviews") = {}

\* A read of stored reviews served from the cache.
C15_Witness ==
    /\ CacheWasHit
    /\ resp.from_cache
    /\ resp.count = 2
    /\ Len(trace) = 1

\* C16: on a cache miss or a Get error the handler makes exactly one
\* repository lookup; when it succeeds, the response carries its result with
\* from_cache = false, and exactly one Set of that result with a ttl of five
\* minutes is attempted, after the lookup.
C16_MissLooksUpAndSets ==
    CacheMissed =>
        /\ CallsOf("GetReviews") = {1}
        /\ CallsOf("GetHotelReviews") = {2}
        /\ trace[2].err = "none" =>
              /\ resp # Panicked
              /\ resp.status = 200
              /\ ~resp.from_cache
              /\ resp.reviews = Marshal(trace[2].reviews)
              /\ CallsOf("SetReviews") = {3}
              /\ Len(trace) = 3
              /\ trace[3].reviews = trace[2].reviews
              /\ trace[3].ttl = 5

\* A read whose GetReviews failed, answered from the store and then cached.
C16_Witness ==
    /\ CacheMissed
    /\ trace[1].err = "redis get error"
    /\ Len(trace) = 3
    /\ trace[3].err = "none"
    /\ resp.count = 2
    /\ sets[resp.hotel_id] # NoResult

\* A cache operation of the read failed.
CacheFailed ==
    \E i \in DOMAIN trace :
        /\ trace[i].op \in {"GetReviews", "SetReviews"}
        /\ trace[i].err \notin {"none", "panic"}

\* The response of a store-only read whose lookup is `lookup`.
StoreOnly(lookup) ==
    IF lookup.err # "none" THEN [status |-> 500, reviews |-> Marshal(NilSlice)]
    ELSE [status |-> 200, reviews |-> Marshal(lookup.reviews)]

\* Status and review list of the response.
Outcome ==
    IF resp.status = 200 THEN [status |-> 200, reviews |-> resp.reviews]
    ELSE [status |-> resp.status, reviews |-> Marshal(NilSlice)]

\* C17: whatever cache operations of a reviews read fail (Get, Set or both),
\* the status and the review list of the response are those of the same read
\* served from the store alone.
C17_CacheFailuresInvisible ==
    (Served /\ cache = Connected /\ CacheFailed) =>
        /\ resp # Panicked
        /\ CallsOf("GetHotelReviews") = {2}
        /\ Outcome = StoreOnly(trace[2])
        /\ resp.status = 200 => ~resp.from_cache

\* A read in which both GetReviews and SetReviews failed and that was
\* answered with the stored reviews.
C17_Witness ==
    /\ Served /\ cache = Connected
    /\ Len(trace) = 3
    /\ trace[1].err = "redis get error"
    /\ trace[3].err = "redis set error"
    /\ resp.status = 200
    /\ resp.count = 2

\* C18: when the ping failed at startup, every reviews read completes from
\* the store with from_cache = false, attempts no cache operation and does
\* not crash.
C18_Original ==
    (cache = NewServerCache(TRUE) /\ Served) =>
        /\ resp # Panicked
        /\ CallsOf("GetReviews") = {}
        /\ CallsOf("SetReviews") = {}
        /\ CallsOf("GetHotelReviews") = {1}
        /\ resp.status = 200 => ~resp.from_cache

\* C19: a Get that finds the hotel's last Set (no Set or Delete after it)
\* returns the list of that Set while its ttl has not elapsed, and returns
\* absent with no error, never that list, once the ttl has elapsed.
C19_TTLExpiry ==
    (got # NoResult /\ ~got.fault /\ got.last # NoResult /\ ~got.last.garbled) =>
        /\ got.err = "none"
        /\ (got.at < got.last.at + got.last.ttl) => got.reviews = got.last.reviews
        /\ (got.at >= got.last.at + got.last.ttl) => got.reviews = NilSlice

\* A Get has come back absent for a list that was set two ticks earlier with
\* a ttl of one tick.
C19_Witness ==
    /\ got # NoResult /\ ~got.fault /\ got.last # NoResult
    /\ got.last.reviews = Slice(<<ReviewA, ReviewB>>)
    /\ got.last.ttl = 1
    /\ got.at = got.last.at + 2
    /\ got.reviews = NilSlice /\ got.err = "none"

\* The last Set of the hotel is neither deleted nor expired at the Get.
EntryExists == got.last # NoResult /\ got.at < got.last.at + got.last.ttl

\* C20: Get returns a hit with the list of the most recent Set when an
\* unexpired, undeleted entry exists, absent with no error when none exists,
\* and an error only on a backend or decoding failure.
C20_Original ==
    (got # NoResult) =>
        /\ (EntryExists /\ ~got.fault /\ ~got.last.garbled) =>
              /\ got.err = "none"
              /\ got.reviews # NilSlice
              /\ got.reviews = got.last.reviews
        /\ (~EntryExists /\ ~got.fault) => (got.reviews = NilSlice /\ got.err = "none")
        /\ (got.err # "none") => (got.fault \/ (EntryExists /\ got.last.garbled))

\* ------------------------------------------------------------------ cached empty list
\* The handler answers a read of hotel h whose GetReviews did not fail, while
\* the cache holds, unexpired, the empty list an earlier read has set for h.
ReadOfCachedEmpty(h) ==
    /\ sets[h] # NoResult
    /\ sets[h].reviews.items = <<>>
    /\ time < sets[h].at + sets[h].ttl
    /\ <<resp, trace>>' # <<resp, trace>>
    /\ trace' # <<>>
    /\ trace'[1].op = "GetReviews"
    /\ trace'[1].err = "none"
    /\ resp'.status = 200
    /\ resp'.hotel_id = h

\* C21: once a reviews read has populated the cache for a hotel that has no
\* reviews, the next read of that hotel within the ttl is served from the
\* cache (from_cache = true) without a repository lookup.
C21_Original ==
    [][\A h \in ServerHotels :
          ReadOfCachedEmpty(h) => resp'.from_cache /\ Len(trace') = 1]_vars

\* ------------------------------------------------------------------ concurrent writers
\* The photos of the Property, as rows of hotel h.
PhotoRowsOf(h, p) == {PhotoRow(h, p.Photos[i]) : i \in DOMAIN p.Photos}

C23_CommitOrRollback ==
    [][/\ (pc = "idle" /\ pc' # "idle") => (tx' # NoTx /\ db' = db)
       /\ (pc # "idle" /\ pc' # "idle") => (tx' # NoTx /\ db' = db)
       /\ (pc # "idle" /\ pc' = "idle") =>
             /\ tx' = NoTx
             /\ result' \in {"ok", "err"}
             /\ result' = "ok" => (pc = "commit" /\ db' = tx)
             /\ result' = "err" => db' = db]_vars

\* A call was aborted at its commit, after every statement had succeeded: the
\* store is as it was when the call began and no transaction is open.
C23_Witness ==
    /\ op = "StoreProperty" /\ pc = "idle" /\ result = "err"
    /\ roomIDMap # <<>>
    /\ tx = NoTx
    /\ db = pre
    /\ PhotosIn(db, arg.HotelID) # {PhotoRow(arg.HotelID, x) : x \in Range(arg.Photos)}

\* ------------------------------------------------------------------ translations scopes
\* A StoreTranslations call has returned ok.
TranslationsStored == op = "StoreTranslations" /\ pc = "idle" /\ result = "ok"

\* The entries of the list in one language.
InLanguage(translations, l) ==
    {translations[i] : i \in {j \in DOMAIN translations : translations[j].LanguageCode = l}}

\* The stored translation rows of one (hotel, language) scope.
ScopeRows(s, h, l) ==
    {r \in s.translations : r.entity_type = "hotel" /\ r.entity_id = h /\ r.language_code = l}

HotelsOf(s) == {r.hotel_id : r \in s.hotels}

\* A StoreReviews or StoreTranslations call has returned.
StoreCallReturned ==
    op \in {"StoreReviews", "StoreTranslations"} /\ pc = "idle" /\ result # "none"

\* Every stored review references a stored Property.
ReviewsReferenceHotels(s) ==
    \A i \in DOMAIN s.reviews : s.reviews[i].hotel_id \in HotelsOf(s)

\* Every stored hotel translation references a stored Property.
TranslationsReferenceHotels(s) ==
    \A r \in s.translations : r.entity_type = "hotel" => r.entity_id \in HotelsOf(s)

\* C25: a StoreReviews or StoreTranslations call for a hotel id without a
\* stored Property fails with an error and writes no row; in every committed
\* state each review and each hotel translation references a stored Property.
C25_Original ==
    /\ (StoreCallReturned /\ arg.HotelID \notin HotelsOf(pre)) =>
          (result = "err" /\ db = pre)
    /\ ReviewsReferenceHotels(db)
    /\ TranslationsReferenceHotels(db)

\* ------------------------------------------------------------------ not found
\* A hotel read has been handled.
HotelRead == resp # NoResult /\ trace # <<>> /\ trace[1].op = "GetHotelByID"

\* C26: GetHotelByID for an id that was never stored returns ErrHotelNotFound
\* and no record when the store answers; ErrHotelNotFound is returned only
\* for an absent hotel; the handler answers it with 404 and every other
\* lookup failure with 500.
C26_NotFoundDistinct ==
    HotelRead =>
        /\ (trace[1].absent /\ ~trace[1].fault) =>
              (trace[1].err = ErrHotelNotFound /\ trace[1].hotel = NoArg)
        /\ trace[1].err = ErrHotelNotFound => (trace[1].absent /\ resp.status = 404)
        /\ trace[1].err \notin {"none", ErrHotelNotFound} => resp.status = 500
        /\ resp.status = 404 => trace[1].err = ErrHotelNotFound
        /\ trace[1].err = "none" =>
              (resp.status = 200 /\ ~trace[1].absent /\ resp.hotel.HotelID = trace[1].id)

\* Hotel 1 is stored, and a read of hotel 2, which never was, is answered 404.
C26_Witness ==
    /\ HotelRead
    /\ 1 \in {r.hotel_id : r \in db.hotels}
    /\ trace[1].id = 2 /\ trace[1].absent /\ ~trace[1].fault
    /\ trace[1].err = ErrHotelNotFound
    /\ resp.status = 404

\* ------------------------------------------------------------------ status classes
\* Client.Do has returned for a response of the API.
DoReturned ==
    resp # NoResult /\ trace # <<>> /\ trace[1].op = "Do" /\ ~trace[1].response.transport

Code == trace[1].response.StatusCode

\* C27: every response code falls in exactly one class: [200,300) returns
\* the body and no error; [400,600) returns the typed error with exactly the
\* status and the X-Request-Id of the response; any other code returns the
\* unexpected-status error, which is not the typed error.
C27_StatusPartition ==
    DoReturned =>
        /\ (Code >= 200 /\ Code < 300) =>
              (resp.err = "none" /\ resp.body = trace[1].response.Body)
        /\ (Code >= 400 /\ Code < 600) =>
              /\ resp.err = "Error"
              /\ resp.StatusCode = Code
              /\ resp.RequestID = trace[1].response.RequestID
        /\ (Code < 200 \/ (Code >= 300 /\ Code < 400) \/ Code >= 600) =>
              resp.err = "unexpected"
        /\ resp.err \in {"none", "Error", "unexpected"}

\* A 599 with a request id has come back as the typed error.
C27_Witness ==
    /\ DoReturned
    /\ Code = 599
    /\ trace[1].response.RequestID = "req-456"
    /\ resp.err = "Error" /\ resp.StatusCode = 599 /\ resp.RequestID = "req-456"

\* C28: a 4xx response yields a client error and a 5xx response a server
\* error, two kinds of error that differ, each carrying the status code and
\* the request id.
C28_Original ==
    DoReturned =>
        /\ (Code >= 400 /\ Code < 600) =>
              /\ resp.err \notin {"none", "unexpected", "transport"}
              /\ resp.StatusCode = Code
              /\ resp.RequestID = trace[1].response.RequestID
        /\ (Code >= 400 /\ Code < 500) =>
              \A r \in ClientResponses \ {TransportError} :
                  (r.StatusCode >= 500 /\ r.StatusCode < 600) => Do(r).err # resp.err
        /\ (Code >= 500 /\ Code < 600) =>
              \A r \in ClientResponses \ {TransportError} :
                  (r.StatusCode >= 400 /\ r.StatusCode < 500) => Do(r).err # resp.err

\* ------------------------------------------------------------------ idempotence
\* The owner of a room child row by its external identity, for a row whose
\* room is stored; a row without a stored room is listed under hotel 0, which
\* no hotel has as its id, with the room id it holds.
RoomOwner(s, roomID) ==
    IF \E r \in s.hotel_rooms : r.id = roomID
    THEN LET r == CHOOSE r \in s.hotel_rooms : r.id = roomID
         IN <<r.hotel_id, r.cupid_room_id>>
    ELSE <<0, roomID>>

\* The hotel of a check-in row id.
CheckinOwner(s, checkinID) ==
    {h \in HotelIds : s.hotel_checkins[h] # NoRow /\ s.hotel_checkins[h].id = checkinID}

\* The content of a store without the generated ids (hotel_rooms.id,
\* hotel_checkins.id) and the timestamps (created_at, updated_at).
Content(s) ==
    [hotels    |-> {[r EXCEPT !.created_at = 0, !.updated_at = 0] : r \in s.hotels},
     addresses |-> s.hotel_addresses,
     checkins  |-> [h \in HotelIds |->
                       IF s.hotel_checkins[h] = NoRow THEN NoRow
                       ELSE [checkin_start |-> s.hotel_checkins[h].checkin_start]],
     instructions |-> {[hotel |-> CheckinOwner(s, r.hotel_checkin_id),
                        instruction |-> r.instruction, sort_order |-> r.sort_order] :
                          r \in s.hotel_checkin_instructions},
     photos     |-> s.hotel_photos,
     facilities |-> s.hotel_facilities,
     policies   |-> s.hotel_policies,
     rooms      |-> {[hotel_id |-> r.hotel_id, cupid_room_id |-> r.cupid_room_id,
                      room_name |-> r.room_name] : r \in s.hotel_rooms},
     bed_types  |-> {[room |-> RoomOwner(s, r.room_id), cupid_bed_id |-> r.cupid_bed_id,
                      bed_type |-> r.bed_type] : r \in s.room_bed_types},
     amenities  |-> {[room |-> RoomOwner(s, r.room_id), amenities_id |-> r.amenities_id,
                      name |-> r.name] : r \in s.room_amenities},
     room_photos |-> {[room |-> RoomOwner(s, r.room_id), url |-> r.url,
                       class_order |-> r.class_order] : r \in s.room_photos},
     reviews      |-> s.reviews,
     translations |-> s.translations]

\* A call that repeated the successful call before it has returned ok.
RepeatReturned == pc = "idle" /\ repeated /\ result = "ok"

\* C29: a StoreProperty with the Property of the successful call before it,
\* or a StoreReviews with the hotel and list of the successful call before
\* it, commits the content that the first call left, up to the generated
\* ids and the timestamps.
C29_RerunIdempotent ==
    RepeatReturned => Content(db) = Content(pre)

\* A Property with rooms and their children was stored twice in a row: the
\* second call gave the rooms new ids and the hotel a new updated_at.
C29_Witness ==
    /\ RepeatReturned
    /\ op = "StoreProperty"
    /\ Len(arg.Rooms) = 2
    /\ db.room_bed_types # {}
    /\ db.hotel_photos # {}
    /\ db.hotel_rooms # pre.hotel_rooms
    /\ db.hotels # pre.hotels
    /\ Content(db) = Content(pre)

\* A review list was stored twice in a row.
ReviewsStoredTwice ==
    RepeatReturned /\ op = "StoreReviews" /\ Len(arg.Reviews) = 2 /\ db.reviews # <<>>

\* ------------------------------------------------------------------ delay
\* C30: in a batch run every fetch but the first starts at least the delay
\* of the batch loop after the fetch before it returned.
C30_Original ==
    \A k \in DOMAIN fetches : fetches[k].gap < 0 \/ fetches[k].gap >= BatchDelay

\* The fetches of content and reviews runs, one per hotel, are so separated.
OneFetchPerHotelDelayed ==
    et \in {ContentEndpoint, ReviewsEndpoint} => C30_Original

\* The second hotel of a content run has been fetched after the sleep.
SecondHotelFetchedAfterSleep ==
    /\ et = ContentEndpoint /\ idx = 2
    /\ fetches # <<>> /\ fetches[1].gap = BatchDelay

\* ------------------------------------------------------------------ validation
\* The last request had a hotel id that is no number, or (translations) a
\* language that is not one of fr, es, en.
Malformed ==
    /\ req # NoResult
    /\ \/ req.hotelID = <<>>
       \/ \E i \in DOMAIN req.hotelID : req.hotelID[i] \notin Range(DigitChars) \cup {"+", "-"}
       \/ req.hotelID \in {<<"+">>, <<"-">>}
       \/ req.route = "translations" /\ req.language \notin {"fr", "es", "en"}

\* C31: a hotel, reviews or translations read whose hotel id is not numeric,
\* or whose language is not fr, es or en, is answered 400 and has made no
\* repository and no cache call.
C31_RejectedBeforeAnyCall ==
    Malformed => resp = [status |-> 400] /\ trace = <<>>

\* A request that is rejected changes neither the store nor the cache.
RejectedHasNoEffect ==
    [][(req' # NoResult /\ resp' = [status |-> 400]) => UNCHANGED <<db, rdb, sets>>]_vars

\* A reviews read for "1a" on a server with a populated cache was rejected.
C31_Witness ==
    /\ Malformed
    /\ req.route = "reviews" /\ req.hotelID = <<"1", "a">>
    /\ CacheConfigured(cache) /\ cache # TypedNil
    /\ \E h \in HotelIds : rdb[h] # NoKey
    /\ resp = [status |-> 400] /\ trace = <<>>

\* A translations read for a well-formed hotel id and language "de" was rejected.
UnsupportedLanguageRejected ==
    /\ req # NoResult /\ req.route = "translations"
    /\ req.hotelID = <<"0", "2">> /\ req.language = "de"
    /\ resp = [status |-> 400] /\ trace = <<>>

\* Well-formed requests in other spellings are served: "+3" and "02" are
\* hotels 3 and 2.
WellFormedServed ==
    /\ req # NoResult /\ req.route = "hotel" /\ req.hotelID = <<"+", "3">>
    /\ resp.status = 200 /\ resp.hotel.HotelID = 3

\* ------------------------------------------------------------------ distinct hotels
\* The stored data of hotel p.HotelID are those of the Property p (for its
\* non-empty collections; the stars are written on insert only).
StoredAsInput(s, p) ==
    LET h == p.HotelID
    IN /\ \E r \in s.hotels : r.hotel_id = h /\ r.rating = p.Rating
       /\ Cardinality({r \in s.hotels : r.hotel_id = h}) = 1
       /\ s.hotel_addresses[h] = [city |-> p.Address.City]
       /\ s.hotel_checkins[h] # NoRow
       /\ s.hotel_checkins[h].checkin_start = p.Checkin.CheckinStart
       /\ {[instruction |-> r.instruction, sort_order |-> r.sort_order] :
              r \in InstructionsIn(s, h)}
            = {[instruction |-> p.Checkin.Instructions[i], sort_order |-> i - 1] :
                  i \in DOMAIN p.Checkin.Instructions}
       /\ PhotosIn(s, h) = {PhotoRow(h, x) : x \in Range(p.Photos)}
       /\ FacilitiesIn(s, h) = {FacilityRow(h, x) : x \in Range(p.Facilities)}
       /\ PoliciesIn(s, h) = {PolicyRow(h, x) : x \in Range(p.Policies)}
       /\ RoomContent(s, h) = InputRoomContent(p.Rooms)
       /\ Cardinality(RoomsIn(s, h)) = Len(p.Rooms)
       /\ \A i \in DOMAIN p.Rooms :
             LET id == RoomRowOf(s, h, p.Rooms[i].ID).id
             IN /\ {r \in s.room_bed_types : r.room_id = id}
                     = {BedTypeRow(id, x) : x \in Range(p.Rooms[i].BedTypes)}
                /\ {r \in s.room_amenities : r.room_id = id}
                     = {RoomAmenityRow(id, x) : x \in Range(p.Rooms[i].RoomAmenities)}
                /\ {r \in s.room_photos : r.room_id = id}
                     = {RoomPhotoRow(id, x) : x \in Range(p.Rooms[i].Photos)}

\* Writers w and v are, or were last, at work for different hotels.
DistinctHotels(w, v) ==
    /\ writers[w].arg # NoArg /\ writers[v].arg # NoArg
    /\ writers[w].arg.HotelID # writers[v].arg.HotelID

\* C32: concurrent StoreProperty calls for different hotels all succeed,
\* none waits for the other, and once a call has returned its hotel's stored
\* data are those of its input, wherever the other call stands.
C32_DistinctHotelsIndependent ==
    \A w \in Writers :
        /\ writers[w].result # "err"
        /\ (\A v \in Writers \ {w} : DistinctHotels(w, v)) => ~RowLocked(w)
        /\ writers[w].result = "ok" => StoredAsInput(db, writers[w].arg)
        /\ \A h \in HotelIds : lastCommitted[h] # NoArg => StoredAsInput(db, lastCommitted[h])

\* Writer A has committed hotel 1 while writer B, at work for hotel 3 since
\* before that commit, has written its rooms and not yet committed.
C32_Witness ==
    /\ writers["A"].result = "ok" /\ writers["A"].arg.HotelID = 1
    /\ writers["B"].pc = "commit" /\ writers["B"].arg.HotelID = 3
    /\ writers["B"].base # db
    /\ StoredAsInput(db, writers["A"].arg)
    /\ ~StoredAsInput(db, writers["B"].arg)

\* Both calls have returned and both hotels are stored as given.
BothStored ==
    /\ writers["A"].result = "ok" /\ writers["B"].result = "ok"
    /\ DistinctHotels("A", "B")
    /\ StoredAsInput(db, writers["A"].arg) /\ StoredAsInput(db, writers["B"].arg)
    /\ RoomsIn(db, 1) # {} /\ RoomsIn(db, 3) # {}

\* ------------------------------------------------------------------ room children
RoomChildren(s) == s.room_bed_types \cup s.room_amenities \cup s.room_photos

\* C33: in every committed state each bed type, room amenity and room photo
\* row references a room row that exists, and after a call that replaced a
\* hotel's rooms no child row of the replaced rooms is left.
C33_NoOrphanRoomChildren ==
    /\ \A r \in RoomChildren(db) : r.room_id \in {x.id : x \in db.hotel_rooms}
    /\ (Finished /\ arg.Rooms # <<>>) =>
          \A r \in RoomChildren(db) : r.room_id \notin {x.id : x \in RoomsIn(pre, arg.HotelID)}

\* A successful call replaced rooms that had children by other rooms.
C33_Witness ==
    /\ Finished
    /\ arg.Rooms # <<>>
    /\ \E r \in RoomChildren(pre) : r.room_id \in {x.id : x \in RoomsIn(pre, arg.HotelID)}
    /\ RoomsIn(db, arg.HotelID) \cap RoomsIn(pre, arg.HotelID) = {}
    /\ RoomChildren(db) # {}

\* ------------------------------------------------------------------ read back

\* A step that reads, through GetHotelByID, the hotel of the StoreProperty
\* call that succeeded last, while the store answers.
ReadsLastStored ==
    /\ Finished /\ UNCHANGED repoVars
    /\ HotelRead' /\ trace'[1].id = arg.HotelID /\ ~trace'[1].fault

\* C34 (as stated): after a successful StoreProperty(p), GetHotelByID(p.hotel_id)
\* returns a record whose hotel_id, hotel_name and rating equal those of p.
C34_Original ==
    [][ReadsLastStored =>
          /\ resp'.status = 200
          /\ resp'.hotel.HotelID = arg.HotelID
          /\ resp'.hotel.HotelName = arg.HotelName
          /\ resp'.hotel.Rating = arg.Rating]_vars

\* What the store does guarantee: hotel_id and hotel_name are those of p, and
\* the rating is p's rounded to two decimals, which is p's own rating when p
\* has no more than two decimals (8.3 is read back as 8.3).
ReadBackRounded ==
    [][ReadsLastStored =>
          /\ resp'.status = 200
          /\ resp'.hotel.HotelID = arg.HotelID
          /\ resp'.hotel.HotelName = arg.HotelName
          /\ resp'.hotel.Rating = Decimal32(arg.Rating).value
          /\ (arg.Rating % 10 = 0 => resp'.hotel.Rating = arg.Rating)]_vars

\* The literal scenario: "The Z Hotel Covent Garden" rated 8.3 is read back.
ReadBackExact ==
    /\ Finished /\ Updated /\ HotelRead /\ resp.status = 200
    /\ arg.Rating = 8300 /\ resp.hotel.Rating = 8300
    /\ resp.hotel.HotelName = <<"The Z Hotel Covent Garden", 0>>

\* A rating of 8.125 was stored successfully and 8.13 is read back.
ReadBackDiffers ==
    /\ Finished /\ HotelRead /\ resp.status = 200 /\ trace[1].id = arg.HotelID
    /\ arg.Rating = 8125 /\ resp.hotel.Rating = 8130

\* A rating of 9.996 does not fit DECIMAL(3, 2): the call fails.
RatingOverflows ==
    pc = "idle" /\ op = "StoreProperty" /\ arg.Rating = 9996 /\ result # "ok"

\* ------------------------------------------------------------------ other rows

\* The rows of store s that hotel h does not own: the rows of every other
\* hotel in the tables StoreProperty writes, and every review and translation.
RowsNotOf(s, h) ==
    LET rooms    == {r.id : r \in RoomsIn(s, h)}
        checkins == IF s.hotel_checkins[h] = NoRow THEN {} ELSE {s.hotel_checkins[h].id}
    IN [hotels                     |-> {r \in s.hotels : r.hotel_id # h},
        hotel_addresses            |-> [x \in HotelIds \ {h} |-> s.hotel_addresses[x]],
        hotel_checkins             |-> [x \in HotelIds \ {h} |-> s.hotel_checkins[x]],
        hotel_checkin_instructions |-> {r \in s.hotel_checkin_instructions :
                                          r.hotel_checkin_id \notin checkins},
        hotel_photos               |-> {r \in s.hotel_photos : r.hotel_id # h},
        hotel_facilities           |-> {r \in s.hotel_facilities : r.hotel_id # h},
        hotel_policies             |-> {r \in s.hotel_policies : r.hotel_id # h},
        hotel_rooms                |-> {r \in s.hotel_rooms : r.hotel_id # h},
        room_bed_types             |-> {r \in s.room_bed_types : r.room_id \notin rooms},
        room_amenities             |-> {r \in s.room_amenities : r.room_id \notin rooms},
        room_photos                |-> {r \in s.room_photos : r.room_id \notin rooms},
        reviews                    |-> s.reviews,
        translations               |-> s.translations]

\* C35: StoreProperty(p) modifies only the hotels row of p.hotel_id and the
\* rows it owns: at every statement of the call and after its commit or
\* rollback, the rows of every other hotel and all reviews and translations
\* are those of the store before the call.
C35_OnlyOwnRows ==
    op = "StoreProperty" =>
        /\ RowsNotOf(db, arg.HotelID) = RowsNotOf(pre, arg.HotelID)
        /\ tx # NoTx => RowsNotOf(tx, arg.HotelID) = RowsNotOf(pre, arg.HotelID)

\* A call replaced the rows of hotel 1 on a store that holds hotel 2 with
\* rooms and room children, reviews of both hotels and translations.
C35_Witness ==
    /\ Updated /\ arg.HotelID = 1 /\ db # pre
    /\ RoomsIn(pre, 1) # {} /\ RoomsIn(db, 1) # RoomsIn(pre, 1)
    /\ RoomsIn(db, 2) # {}
    /\ \E r \in RoomChildren(db) : RoomOwner(db, r.room_id)[1] = 2
    /\ PhotosIn(db, 2) # {}
    /\ {db.reviews[i].hotel_id : i \in DOMAIN db.reviews} = {1, 2}
    /\ db.translations # {}

\* ------------------------------------------------------------------ stale reads

\* A step in which a reviews read is answered from the cache.
AnsweredFromCache ==
    /\ UNCHANGED <<repoVars, time>> /\ req'.phase = req.phase
    /\ resp' # NoResult /\ resp'.status = 200 /\ resp'.from_cache

\* The list the store holds for the hotel, as a read would return it.
StoredList(id) == Marshal(Slice(GetHotelReviews(db, id)))

\* C36: the cache gives no read-after-write: StoreReviews leaves the cache
\* as it is, and a read answered from the cache returns the list of the last
\* SetReviews of the hotel, made less than 5 minutes before, whatever the
\* store holds by then; the list may differ from the committed one.
C36_StaleUntilExpiry ==
    [][/\ (op' = "StoreReviews" /\ clock' # clock) => rdb' = rdb
       /\ AnsweredFromCache =>
             LET id == resp'.hotel_id
             IN /\ sets[id] # NoResult
                /\ resp'.reviews = Marshal(sets[id].reviews)
                /\ time < sets[id].at + ReviewsTTL]_vars

\* StoreReviews(1, R) has committed and the read after it is answered from
\* the cache with the list cached before the commit.
C36_Witness ==
    /\ op = "StoreReviews" /\ result = "ok" /\ arg.HotelID = 1 /\ arg.Reviews # <<>>
    /\ StoredList(1) = Marshal(Slice(arg.Reviews))
    /\ req.read = clock /\ req.phase = "none"
    /\ resp # NoResult /\ resp.status = 200 /\ resp.hotel_id = 1 /\ resp.from_cache
    /\ resp.reviews # StoredList(1)

\* The stale entry was written by a read whose lookup preceded the commit
\* and whose SetReviews followed it; a later read is answered with it.
StaleFromConcurrentRead ==
    /\ op = "StoreReviews" /\ result = "ok" /\ arg.HotelID = 1
    /\ req.phase = "done" /\ req.id = 1 /\ req.lookup < req.set /\ req.set = clock
    /\ clock = 1
    /\ sets[1] = LastSet(req.found, time, ReviewsTTL)
    /\ resp # NoResult /\ resp.status = 200 /\ resp.hotel_id = 1 /\ resp.from_cache
    /\ resp.reviews = Marshal(req.found)
    /\ resp.reviews # StoredList(1)

\* After the ttl has elapsed the read is answered from the store again.
FreshAfterExpiry ==
    /\ op = "StoreReviews" /\ result = "ok" /\ arg.HotelID = 1 /\ arg.Reviews # <<>>
    /\ time >= ReviewsTTL /\ sets[1] # NoResult /\ sets[1].at = time
    /\ req.read = clock
    /\ resp # NoResult /\ resp.status = 200 /\ resp.hotel_id = 1 /\ ~resp.from_cache
    /\ resp.reviews = StoredList(1)

\* ------------------------------------------------------------------ empty reviews

\* The reviews fetch of the unit succeeded with an empty body or with a body
\* that parses to an empty list.
FetchedNoReviews ==
    /\ et = ReviewsEndpoint /\ UnitEnded
    /\ fetches # <<>> /\ fetches[1].do = "none" /\ fetches[1].status = StatusOK
    /\ \/ BodyLen(body) = 0
       \/ ~ParseReviews(body).err /\ Len(ParseReviews(body).value) = 0

\* C37: a reviews sync whose fetch succeeds with an empty body or an empty
\* review list makes no StoreReviews call: the store, with the reviews the
\* hotel had before, is unchanged and the unit ends as a success.
C37_EmptyFetchSkipsStore ==
    FetchedNoReviews =>
        /\ unit = "done"
        /\ calls = 0
        /\ stored = "none"
        /\ db = before
        /\ GetHotelReviews(db, hotelID) = GetHotelReviews(before, hotelID)

\* Hotel 1, which has a stored review, is answered with an empty list.
C37_Witness ==
    /\ FetchedNoReviews /\ hotelID = 1
    /\ body = BodyJSON(<<>>)
    /\ GetHotelReviews(db, 1) = <<ReviewC>>
    /\ unit = "done" /\ calls = 0

\* Hotel 2, which has stored reviews, is answered with an empty body after
\* the reviews of hotel 1 were replaced.
EmptyBodySkipsStore ==
    /\ FetchedNoReviews /\ hotelID = 2
    /\ body = BodyEmpty
    /\ GetHotelReviews(db, 1) = FetchedReviews(1)
    /\ GetHotelReviews(db, 2) = <<ReviewA, ReviewB>>
    /\ unit = "done" /\ successCount = 1

\* ------------------------------------------------------------------ upsert columns

\* The columns the claim names as overwritten and as kept (the type and the
\* chain with their ids); the two timestamps are stated apart.
OverwrittenOnConflict ==
    {"main_image_th", "hotel_name", "phone", "fax", "email", "rating", "review_count",
     "description", "markdown_description", "important_info"}

KeptOnConflict ==
    {"cupid_id", "hotel_type", "hotel_type_id", "chain", "chain_id", "latitude", "longitude",
     "stars", "airport_code", "parking", "group_room_min", "child_allowed", "pets_allowed"}

\* C38: when StoreProperty meets a stored hotel_id, the main image, name,
\* phone, fax, email, rating, review count, description, markdown description,
\* important info and the update timestamp of the row take the values of the
\* call; cupid_id, hotel type, chain, latitude, longitude, stars, airport
\* code, parking, group_room_min, child_allowed, pets_allowed and the
\* creation timestamp keep the values the row had.
C38_ConflictColumns ==
    Updated =>
        \A new \in HotelRowsIn(db, arg.HotelID) : \A old \in HotelRowsIn(pre, arg.HotelID) :
            /\ DOMAIN new = OverwrittenOnConflict \cup KeptOnConflict
                            \cup {"hotel_id", "created_at", "updated_at"}
            /\ \A c \in OverwrittenOnConflict : new[c] = HotelRow(InsertedColumns(arg),
                                                       UpdatedColumns(arg), 0, 0)[c]
            /\ new.updated_at = clock
            /\ \A c \in KeptOnConflict : new[c] = old[c]
            /\ new.created_at = old.created_at

\* The stored row and the Property of the call differ in every column.
C38_Witness ==
    /\ Updated
    /\ \E old \in HotelRowsIn(pre, arg.HotelID) :
          /\ \A c \in OverwrittenOnConflict \cup KeptOnConflict :
                old[c] # HotelRow(InsertedColumns(arg), UpdatedColumns(arg), 0, 0)[c]
          /\ old.created_at < clock
    /\ \E new \in HotelRowsIn(db, arg.HotelID) : new.stars # arg.Stars /\ new.cupid_id # arg.CupidID

\* ------------------------------------------------------------------ duplicates

\* No two rows of the set have the same key under the given columns.
NoTwoRows(rows, columns) ==
    \A r1, r2 \in rows : (\A c \in columns : r1[c] = r2[c]) => r1 = r2

\* Two elements of the list have the same value in the field.
Repeats(list, field) ==
    \E i, j \in DOMAIN list : i # j /\ list[i][field] = list[j][field]

\* The Property repeats a photo URL, a facility id, a policy id or an
\* external room id.
HasDuplicate(p) ==
    \/ Repeats(p.Photos, "URL")
    \/ Repeats(p.Facilities, "FacilityID")
    \/ Repeats(p.Policies, "ID")
    \/ Repeats(p.Rooms, "ID")

\* C39: in every committed state no hotel has two room rows with the same
\* external room id, two photos with the same URL, two facilities with the
\* same facility id or two policies with the same policy id; a StoreProperty
\* whose input holds such a duplicate returns an error and leaves the store
\* as it was before the call.
C39_NoDuplicateRows ==
    /\ NoTwoRows(db.hotel_rooms, {"hotel_id", "cupid_room_id"})
    /\ NoTwoRows(db.hotel_photos, {"hotel_id", "url"})
    /\ NoTwoRows(db.hotel_facilities, {"hotel_id", "facility_id"})
    /\ NoTwoRows(db.hotel_policies, {"hotel_id", "cupid_policy_id"})
    /\ (op = "StoreProperty" /\ pc = "idle" /\ HasDuplicate(arg)) =>
          (result = "err" /\ db = pre)

\* A call with two rooms of the same external id reached the room insert on
\* a store that holds the hotel with a room of that id, and failed: the
\* stored rooms and their children are those of the earlier call.
C39_Witness ==
    /\ op = "StoreProperty" /\ pc = "idle" /\ result = "err"
    /\ Repeats(arg.Rooms, "ID") /\ ~Repeats(arg.Photos, "URL")
    /\ db = pre
    /\ RoomsIn(db, arg.HotelID) # {} /\ RoomChildren(db) # {}
    /\ PhotosIn(db, arg.HotelID) # {}
    /\ \A r \in PhotosIn(db, arg.HotelID) : r.url # arg.Photos[1].URL
    /\ roomSeq > Cardinality(db.hotel_rooms)

====
